---- MODULE Spec2Model ----
(***************************************************************************)
(* Model of the sample accumulator of lua-measure (src/measure_samples.h,  *)
(* src/samples.c, src/sampler.c) and of the statistics that read it        *)
(* (src/stats/common.h).                                                   *)
(*                                                                         *)
(* Representation choices:                                                 *)
(*  - uint64_t / size_t values are naturals below UINT64_MAX + 1; the word *)
(*    is scaled down to WordBits bits so that the sentinel UINT64_MAX and  *)
(*    the conversion to the signed lua_Integer stay inside TLC's integers. *)
(*  - double values that the code computes by division (mean, M2,          *)
(*    percentile) are exact rationals <<numerator, denominator>> in lowest *)
(*    terms; NaN is the value NaN.  cl and rciw are only compared and      *)
(*    copied and are integers.                                             *)
(*  - memory that the code reads without having written it (the tail of a  *)
(*    lua_newuserdata block) takes any value of Uninit.                    *)
(***************************************************************************)
EXTENDS Integers, Sequences, FiniteSets, TLC

(* ---------------------------- bounds ---------------------------------- *)
MaxSets == 3
MaxCapacity == 3
MaxNewCapacity == 2
MaxIncrease == 2
MaxTime == 2
MaxKb == 1
MaxOps == 4
MaxElapsed == 3
MaxGroups == 4
MaxCompared == 3
MaxSamples == 5
MaxShort == 2

(* ----------------------- program constants ----------------------------- *)
WordBits == 8
DEFAULT_CL == 95
DEFAULT_RCIW == 5

RECURSIVE Pow2(_)
Pow2(n) == IF n = 0 THEN 1 ELSE 2 * Pow2(n - 1)

UINT64_MAX == Pow2(WordBits) - 1
INT64_MAX == Pow2(WordBits - 1) - 1

\* unsigned wrap-around of uint64_t / size_t arithmetic
U64(x) == x % (UINT64_MAX + 1)

\* (lua_Integer)u: the cast lua_pushinteger applies to an unsigned value
lua_pushinteger(u) == IF u > INT64_MAX THEN u - (UINT64_MAX + 1) ELSE u

(* ----------------------- exact arithmetic ------------------------------ *)
Abs(x) == IF x < 0 THEN -x ELSE x

RECURSIVE GCD(_, _)
GCD(a, b) == IF b = 0 THEN a ELSE GCD(b, a % b)

\* the rational n/d in lowest terms with a positive denominator
Rat(n, d) ==
    LET g == GCD(Abs(n), Abs(d))
        sg == IF d < 0 THEN -1 ELSE 1
    IN  <<sg * ((IF n < 0 THEN -1 ELSE 1) * (Abs(n) \div g)), Abs(d) \div g>>

RInt(n) == <<n, 1>>
RAdd(a, b) == Rat(a[1] * b[2] + b[1] * a[2], a[2] * b[2])
RSub(a, b) == Rat(a[1] * b[2] - b[1] * a[2], a[2] * b[2])
RMul(a, b) == Rat(a[1] * b[1], a[2] * b[2])
RDiv(a, b) == Rat(a[1] * b[2], a[2] * b[1])
RLess(a, b) == a[1] * b[2] < b[1] * a[2]
\* floor() and ceil() of a non-negative rational
RFloor(a) == a[1] \div a[2]
RCeil(a) == (a[1] + a[2] - 1) \div a[2]

NaN == <<0, 0>>

(* ----------------------- measure_samples_t ----------------------------- *)
\* a zeroed measure_samples_data_t
ZeroData == [time_ns |-> 0, before_kb |-> 0, after_kb |-> 0, allocated_kb |-> 0]

\* contents of a measure_samples_data_t that was allocated and never written
Uninit == {[time_ns |-> g, before_kb |-> g, after_kb |-> g, allocated_kb |-> g] :
             g \in 0..MaxKb}

Names == {"", "a"}


\* new_measure_samples: the struct is zero-filled by memset, so sum, min, max,
\* mean, M2, base_kb and sum_allocated_kb all start at 0; the data array is
\* zero-filled too.
new_measure_samples(name, capacity, gc_step, cl, rciw) ==
    [name |-> name,
     capacity |-> capacity,
     count |-> 0,
     base_kb |-> 0,
     cl |-> cl,
     rciw |-> rciw,
     sum |-> 0,
     min |-> 0,
     max |-> 0,
     M2 |-> RInt(0),
     mean |-> RInt(0),
     sum_allocated_kb |-> 0,
     gc_step |-> IF gc_step < 0 THEN -1 ELSE gc_step,
     data |-> [k \in 1..capacity |-> ZeroData]]

\* measure_samples_clear zeroing only the slots in use (count of them)
\* instead of the whole array
measure_samples_clear_used(s) ==
    [s EXCEPT !.count = 0,
              !.sum = 0,
              !.min = UINT64_MAX,
              !.max = 0,
              !.M2 = RInt(0),
              !.mean = RInt(0),
              !.sum_allocated_kb = 0,
              !.data = [k \in 1..s.capacity |->
                           IF k <= s.count THEN ZeroData ELSE s.data[k]],
              !.base_kb = 0]

\* measure_samples_clear: the aggregates are reset, min to its sentinel, the
\* whole array is zeroed and base_kb is reset
measure_samples_clear(s) ==
    [s EXCEPT !.count = 0,
              !.sum = 0,
              !.min = UINT64_MAX,
              !.max = 0,
              !.M2 = RInt(0),
              !.mean = RInt(0),
              !.sum_allocated_kb = 0,
              !.data = [k \in 1..s.capacity |-> ZeroData],
              !.base_kb = 0]

\* the part of measure_samples_preprocess that writes the samples object:
\* base_kb becomes the collector's memory count
measure_samples_preprocess(s, gc_count_kb) ==
    [s EXCEPT !.base_kb = gc_count_kb]

\* measure_samples_init_sample: slot data[count] (index count + 1 here) gets
\* the start time and the memory before the call; after_kb, allocated_kb := 0
measure_samples_init_sample(s, now, gc_count_kb) ==
    IF s.count >= s.capacity
    THEN [rc |-> -1, errno |-> "ENOSPC", s |-> s]
    ELSE [rc |-> 0, errno |-> "",
          s |-> [s EXCEPT !.data[s.count + 1] =
                    [time_ns |-> now, before_kb |-> gc_count_kb,
                     after_kb |-> 0, allocated_kb |-> 0]]]

\* measure_samples_update_sample_ex with the capacity test off by one
\* (count > capacity): the append the real test refuses goes through
measure_samples_update_sample_ex_gt(s, elapsed, before_kb, after_kb) ==
    IF s.count > s.capacity
    THEN [rc |-> -1, errno |-> "ENOSPC", s |-> s]
    ELSE LET slot == s.data[s.count + 1]
             \* allocated_kb is assigned only when after_kb > before_kb;
             \* otherwise the slot keeps what it held
             allocated_kb == IF after_kb > before_kb
                             THEN after_kb - before_kb
                             ELSE slot.allocated_kb
             count == s.count + 1
             delta == RSub(RInt(elapsed), s.mean)
             mean == IF count < 2 THEN RInt(elapsed)
                     ELSE RAdd(s.mean, RDiv(delta, RInt(count)))
             M2 == IF count < 2 THEN RInt(0)
                   ELSE RAdd(s.M2, RMul(delta, RSub(RInt(elapsed), mean)))
         IN  [rc |-> 0, errno |-> "",
              s |-> [s EXCEPT
                  !.data[s.count + 1] =
                      [time_ns |-> elapsed, before_kb |-> before_kb,
                       after_kb |-> after_kb, allocated_kb |-> allocated_kb],
                  !.sum_allocated_kb = U64(s.sum_allocated_kb + allocated_kb),
                  !.sum = U64(s.sum + elapsed),
                  !.min = IF elapsed < s.min THEN elapsed ELSE s.min,
                  !.max = IF elapsed > s.max THEN elapsed ELSE s.max,
                  !.count = count,
                  !.mean = mean,
                  !.M2 = M2]]

\* measure_samples_update_sample_ex adding delta * delta to M2, the deviation
\* from the old mean on both sides instead of the old and the new mean
measure_samples_update_sample_ex_delta2(s, elapsed, before_kb, after_kb) ==
    IF s.count >= s.capacity
    THEN [rc |-> -1, errno |-> "ENOSPC", s |-> s]
    ELSE LET slot == s.data[s.count + 1]
             allocated_kb == IF after_kb > before_kb
                             THEN after_kb - before_kb
                             ELSE slot.allocated_kb
             count == s.count + 1
             delta == RSub(RInt(elapsed), s.mean)
             mean == IF count < 2 THEN RInt(elapsed)
                     ELSE RAdd(s.mean, RDiv(delta, RInt(count)))
             M2 == IF count < 2 THEN RInt(0)
                   ELSE RAdd(s.M2, RMul(delta, delta))
         IN  [rc |-> 0, errno |-> "",
              s |-> [s EXCEPT
                  !.data[s.count + 1] =
                      [time_ns |-> elapsed, before_kb |-> before_kb,
                       after_kb |-> after_kb, allocated_kb |-> allocated_kb],
                  !.sum_allocated_kb = U64(s.sum_allocated_kb + allocated_kb),
                  !.sum = U64(s.sum + elapsed),
                  !.min = IF elapsed < s.min THEN elapsed ELSE s.min,
                  !.max = IF elapsed > s.max THEN elapsed ELSE s.max,
                  !.count = count,
                  !.mean = mean,
                  !.M2 = M2]]

measure_samples_update_sample_ex(s, elapsed, before_kb, after_kb) ==
    IF s.count >= s.capacity
    THEN [rc |-> -1, errno |-> "ENOSPC", s |-> s]
    ELSE LET slot == s.data[s.count + 1]
             \* allocated_kb is assigned only when after_kb > before_kb;
             \* otherwise the slot keeps what it held
             allocated_kb == IF after_kb > before_kb
                             THEN after_kb - before_kb
                             ELSE slot.allocated_kb
             count == s.count + 1
             delta == RSub(RInt(elapsed), s.mean)
             mean == IF count < 2 THEN RInt(elapsed)
                     ELSE RAdd(s.mean, RDiv(delta, RInt(count)))
             M2 == IF count < 2 THEN RInt(0)
                   ELSE RAdd(s.M2, RMul(delta, RSub(RInt(elapsed), mean)))
         IN  [rc |-> 0, errno |-> "",
              s |-> [s EXCEPT
                  !.data[s.count + 1] =
                      [time_ns |-> elapsed, before_kb |-> before_kb,
                       after_kb |-> after_kb, allocated_kb |-> allocated_kb],
                  !.sum_allocated_kb = U64(s.sum_allocated_kb + allocated_kb),
                  !.sum = U64(s.sum + elapsed),
                  !.min = IF elapsed < s.min THEN elapsed ELSE s.min,
                  !.max = IF elapsed > s.max THEN elapsed ELSE s.max,
                  !.count = count,
                  !.mean = mean,
                  !.M2 = M2]]

\* measure_samples_update_sample: elapsed time since init_sample, memory after
measure_samples_update_sample(s, now, gc_count_kb) ==
    IF s.count >= s.capacity
    THEN [rc |-> -1, errno |-> "ENOSPC", s |-> s]
    ELSE LET slot == s.data[s.count + 1]
             r == measure_samples_update_sample_ex(
                      s, U64(now - slot.time_ns), slot.before_kb, gc_count_kb)
         IN  [rc |-> 0, errno |-> "", s |-> r.s]

\* capacity_lua taking the increase as the new capacity
capacity_lua_replaces(s, increase, junk) ==
    IF ~(increase > 0)
    THEN [err |-> "positive integer expected", s |-> s]
    ELSE LET new_capacity == U64(increase)
             zeroed == increase
         IN  [err |-> "",
              s |-> [s EXCEPT
                  !.capacity = new_capacity,
                  !.data = [k \in 1..new_capacity |->
                              IF k <= s.count THEN s.data[k]
                              ELSE IF k <= s.count + zeroed THEN ZeroData
                              ELSE junk[k]]]]

\* capacity_lua copying one slot less than count
capacity_lua_nocopy(s, increase, junk) ==
    IF ~(increase > 0)
    THEN [err |-> "positive integer expected", s |-> s]
    ELSE LET new_capacity == U64(s.capacity + increase)
             zeroed == new_capacity - s.capacity
         IN  [err |-> "",
              s |-> [s EXCEPT
                  !.capacity = new_capacity,
                  !.data = [k \in 1..new_capacity |->
                              IF k <= s.count - 1 THEN s.data[k]
                              ELSE IF k <= s.count + zeroed THEN ZeroData
                              ELSE junk[k]]]]

\* capacity_lua with an increase argument.  junk[k] is what the fresh
\* lua_newuserdata block holds at slot k before the code writes it: the code
\* copies count slots and zeroes (new_capacity - capacity) slots from count on.
\* increase <= 0 raises the argument error before anything is written.
capacity_lua(s, increase, junk) ==
    IF ~(increase > 0)
    THEN [err |-> "positive integer expected", s |-> s]
    ELSE LET new_capacity == U64(s.capacity + increase)
             zeroed == new_capacity - s.capacity
         IN  [err |-> "",
              s |-> [s EXCEPT
                  !.capacity = new_capacity,
                  !.data = [k \in 1..new_capacity |->
                              IF k <= s.count THEN s.data[k]
                              ELSE IF k <= s.count + zeroed THEN ZeroData
                              ELSE junk[k]]]]

\* copy_samples comparing max the wrong way round
copy_samples_maxslip(dst, src) ==
    IF ~(src.count > 0)
    THEN [err |-> "", s |-> dst]
    ELSE IF dst.count + src.count > dst.capacity
    THEN [err |-> "failed to merge samples", s |-> dst]
    ELSE LET delta == RSub(src.mean, dst.mean)
             n1 == dst.count
             n2 == src.count
             n == n1 + n2
             mean == IF dst.count = 0 THEN src.mean
                     ELSE RAdd(dst.mean,
                               RDiv(RMul(delta, RInt(n2)), RInt(n)))
             M2 == IF dst.count = 0 THEN src.M2
                   ELSE RAdd(dst.M2,
                          RAdd(src.M2,
                               RDiv(RMul(RMul(RMul(delta, delta), RInt(n1)),
                                         RInt(n2)),
                                    RInt(n))))
         IN  [err |-> "",
              s |-> [dst EXCEPT
                  !.data = [k \in 1..dst.capacity |->
                              IF k > dst.count /\ k <= dst.count + src.count
                              THEN src.data[k - dst.count]
                              ELSE dst.data[k]],
                  !.mean = mean,
                  !.M2 = M2,
                  !.sum = U64(dst.sum + src.sum),
                  !.min = IF src.min < dst.min THEN src.min ELSE dst.min,
                  !.max = IF src.max < dst.max THEN src.max ELSE dst.max,
                  !.count = dst.count + src.count]]

\* copy_samples copying to the front of dst->data instead of behind its
\* count slots
copy_samples_front(dst, src) ==
    IF ~(src.count > 0)
    THEN [err |-> "", s |-> dst]
    ELSE IF dst.count + src.count > dst.capacity
    THEN [err |-> "failed to merge samples", s |-> dst]
    ELSE LET delta == RSub(src.mean, dst.mean)
             n1 == dst.count
             n2 == src.count
             n == n1 + n2
             mean == IF dst.count = 0 THEN src.mean
                     ELSE RAdd(dst.mean,
                               RDiv(RMul(delta, RInt(n2)), RInt(n)))
             M2 == IF dst.count = 0 THEN src.M2
                   ELSE RAdd(dst.M2,
                          RAdd(src.M2,
                               RDiv(RMul(RMul(RMul(delta, delta), RInt(n1)),
                                         RInt(n2)),
                                    RInt(n))))
         IN  [err |-> "",
              s |-> [dst EXCEPT
                  !.data = [k \in 1..dst.capacity |->
                              IF k <= src.count
                              THEN src.data[k]
                              ELSE dst.data[k]],
                  !.mean = mean,
                  !.M2 = M2,
                  !.sum = U64(dst.sum + src.sum),
                  !.min = IF src.min < dst.min THEN src.min ELSE dst.min,
                  !.max = IF src.max > dst.max THEN src.max ELSE dst.max,
                  !.count = dst.count + src.count]]

\* copy_samples: memcpy of src's count slots behind dst's, Chan's combination
\* of mean and M2, then sum, min, max and count
copy_samples(dst, src) ==
    IF ~(src.count > 0)
    THEN [err |-> "", s |-> dst]
    ELSE IF dst.count + src.count > dst.capacity
    THEN [err |-> "failed to merge samples", s |-> dst]
    ELSE LET delta == RSub(src.mean, dst.mean)
             n1 == dst.count
             n2 == src.count
             n == n1 + n2
             mean == IF dst.count = 0 THEN src.mean
                     ELSE RAdd(dst.mean,
                               RDiv(RMul(delta, RInt(n2)), RInt(n)))
             M2 == IF dst.count = 0 THEN src.M2
                   ELSE RAdd(dst.M2,
                          RAdd(src.M2,
                               RDiv(RMul(RMul(RMul(delta, delta), RInt(n1)),
                                         RInt(n2)),
                                    RInt(n))))
         IN  [err |-> "",
              s |-> [dst EXCEPT
                  !.data = [k \in 1..dst.capacity |->
                              IF k > dst.count /\ k <= dst.count + src.count
                              THEN src.data[k - dst.count]
                              ELSE dst.data[k]],
                  !.mean = mean,
                  !.M2 = M2,
                  !.sum = U64(dst.sum + src.sum),
                  !.min = IF src.min < dst.min THEN src.min ELSE dst.min,
                  !.max = IF src.max > dst.max THEN src.max ELSE dst.max,
                  !.count = dst.count + src.count]]

\* the second loop of merge_lua: copy_samples for list[i..], stopping at the
\* error luaL_error raises
RECURSIVE merge_copy(_, _, _)
merge_copy(merged, list, i) ==
    IF i > Len(list) THEN [err |-> "", s |-> merged]
    ELSE LET r == copy_samples(merged, list[i])
         IN  IF r.err # "" THEN r ELSE merge_copy(r.s, list, i + 1)

\* the first loop of merge_lua adding up the capacity of the first item only
total_capacity_first(list, i) ==
    IF i > Len(list) THEN 0 ELSE list[i].capacity

\* the first loop of merge_lua: total_capacity += item->capacity
RECURSIVE total_capacity(_, _)
total_capacity(list, i) ==
    IF i > Len(list) THEN 0
    ELSE U64(list[i].capacity + total_capacity(list, i + 1))

\* merge_lua(name, list): list is the sequence of the sample objects named by
\* the table argument
merge_lua(name, list) ==
    IF ~(Len(list) > 0)
    THEN [err |-> "table of samples cannot be empty",
          s |-> new_measure_samples(name, 0, 0, 0, 0)]
    ELSE LET first == list[1]
             fresh == new_measure_samples(name, total_capacity(list, 1),
                                          first.gc_step, first.cl, first.rciw)
             merged == [fresh EXCEPT !.min = UINT64_MAX]
             r == merge_copy(merged, list, 1)
         IN  IF r.err # "" THEN r
             ELSE [err |-> "",
                   s |-> IF r.s.count = 0 THEN [r.s EXCEPT !.min = 0] ELSE r.s]

(* ----------------------- dump and restore ------------------------------ *)
\* dump_lua: the table built from the object.  Integers go through
\* lua_pushinteger; the name field is absent (<<>>) when the name is empty;
\* the four arrays have count entries.  An entry of an array is a Lua number,
\* kept as the rational <<n, d>> so that a table can also hold a non-integer.
dump_lua(s) ==
    [name |-> IF s.name = "" THEN <<>> ELSE <<s.name>>,
     capacity |-> lua_pushinteger(s.capacity),
     count |-> lua_pushinteger(s.count),
     gc_step |-> s.gc_step,
     cl |-> s.cl,
     rciw |-> s.rciw,
     sum |-> lua_pushinteger(s.sum),
     min |-> lua_pushinteger(s.min),
     max |-> lua_pushinteger(s.max),
     M2 |-> s.M2,
     mean |-> s.mean,
     base_kb |-> lua_pushinteger(s.base_kb),
     time_ns |->
         [k \in 1..s.count |-> RInt(lua_pushinteger(s.data[k].time_ns))],
     before_kb |->
         [k \in 1..s.count |-> RInt(lua_pushinteger(s.data[k].before_kb))],
     after_kb |->
         [k \in 1..s.count |-> RInt(lua_pushinteger(s.data[k].after_kb))],
     allocated_kb |->
         [k \in 1..s.count |-> RInt(lua_pushinteger(s.data[k].allocated_kb))]]

\* a Lua number <<n, d>> in lowest terms is an integer when d = 1
lua_isinteger(v) == v[2] = 1
lua_tointeger(v) == v[1]

\* what restore_lua leaves on the stack: ok with the object, or nil and a
\* message (the object field is then meaningless)
NoSamples == new_measure_samples("", 0, 0, 0, 0)
RestoreError(msg) == [ok |-> FALSE, err |-> msg, s |-> NoSamples]

\* the fill loop of restore_lua: entries i.. of the three arrays read by
\* COPY_ARRAY_VALUE, each appended with measure_samples_update_sample_ex
RECURSIVE restore_fill(_, _, _, _)
restore_fill(s, t, i, count) ==
    LET bad(v) == ~lua_isinteger(v) \/ lua_tointeger(v) < 0
    IN  IF i > count THEN [ok |-> TRUE, err |-> "", s |-> s]
        ELSE IF bad(t.time_ns[i])
        THEN RestoreError("field 'time_ns[i]' must be a integer >= 0")
        ELSE IF bad(t.before_kb[i])
        THEN RestoreError("field 'before_kb[i]' must be a integer >= 0")
        ELSE IF bad(t.after_kb[i])
        THEN RestoreError("field 'after_kb[i]' must be a integer >= 0")
        ELSE restore_fill(
                 measure_samples_update_sample_ex(
                     s, lua_tointeger(t.time_ns[i]),
                     lua_tointeger(t.before_kb[i]),
                     lua_tointeger(t.after_kb[i])).s,
                 t, i + 1, count)

\* restore_lua with the tests of cl and rciw in the other order
restore_lua_rciw_first(t) ==
    IF t.capacity <= 0
    THEN RestoreError("invalid field 'capacity': must be > 0")
    ELSE IF t.count < 0 \/ t.count > t.capacity
    THEN RestoreError("invalid field 'count': must be >= 0 and <= capacity")
    ELSE IF t.rciw <= 0 \/ t.rciw > 100
    THEN RestoreError("invalid field 'rciw': must be in range 0 < rciw <= 100")
    ELSE IF t.cl <= 0 \/ t.cl > 100
    THEN RestoreError("invalid field 'cl': must be in range 0 < cl <= 100")
    ELSE IF t.base_kb <= 0
    THEN RestoreError("invalid field 'base_kb': must be > 0")
    ELSE IF Len(t.time_ns) # t.count
    THEN RestoreError("field 'time_ns' array size does not match 'count'")
    ELSE IF Len(t.before_kb) # t.count
    THEN RestoreError("field 'before_kb' array size does not match 'count'")
    ELSE IF Len(t.after_kb) # t.count
    THEN RestoreError("field 'after_kb' array size does not match 'count'")
    ELSE LET name == IF t.name = <<>> THEN "" ELSE t.name[1]
             fresh == new_measure_samples(name, t.capacity, t.gc_step,
                                          t.cl, t.rciw)
             s == [fresh EXCEPT !.count = 0,
                                !.base_kb = t.base_kb,
                                !.min = UINT64_MAX]
         IN  restore_fill(s, t, 1, t.count)

\* restore_lua: the scalar fields are validated in the order capacity, count,
\* gc_step, cl, rciw, base_kb; then the lengths of time_ns, before_kb and
\* after_kb are compared with count; then the object is filled.  The fields
\* sum, min, max, M2, mean and allocated_kb of the table are never read.
restore_lua(t) ==
    IF t.capacity <= 0
    THEN RestoreError("invalid field 'capacity': must be > 0")
    ELSE IF t.count < 0 \/ t.count > t.capacity
    THEN RestoreError("invalid field 'count': must be >= 0 and <= capacity")
    ELSE IF t.cl <= 0 \/ t.cl > 100
    THEN RestoreError("invalid field 'cl': must be in range 0 < cl <= 100")
    ELSE IF t.rciw <= 0 \/ t.rciw > 100
    THEN RestoreError("invalid field 'rciw': must be in range 0 < rciw <= 100")
    ELSE IF t.base_kb <= 0
    THEN RestoreError("invalid field 'base_kb': must be > 0")
    ELSE IF Len(t.time_ns) # t.count
    THEN RestoreError("field 'time_ns' array size does not match 'count'")
    ELSE IF Len(t.before_kb) # t.count
    THEN RestoreError("field 'before_kb' array size does not match 'count'")
    ELSE IF Len(t.after_kb) # t.count
    THEN RestoreError("field 'after_kb' array size does not match 'count'")
    ELSE LET name == IF t.name = <<>> THEN "" ELSE t.name[1]
             fresh == new_measure_samples(name, t.capacity, t.gc_step,
                                          t.cl, t.rciw)
             s == [fresh EXCEPT !.count = 0,
                                !.base_kb = t.base_kb,
                                !.min = UINT64_MAX]
         IN  restore_fill(s, t, 1, t.count)

(* ----------------------- statistics ------------------------------------ *)
\* qsort with compare_uint64: the values in ascending order
RECURSIVE InsertSorted(_, _)
InsertSorted(x, seq) ==
    IF seq = <<>> THEN <<x>>
    ELSE IF x <= Head(seq) THEN <<x>> \o seq
    ELSE <<Head(seq)>> \o InsertSorted(x, Tail(seq))

RECURSIVE qsort(_)
qsort(seq) ==
    IF seq = <<>> THEN <<>> ELSE InsertSorted(Head(seq), qsort(Tail(seq)))

copy_and_sort_time_data(s) ==
    qsort([k \in 1..s.count |-> s.data[k].time_ns])

\* p is a rational percentage; index = p/100 * (count - 1)
stats_percentile_from_sorted(sorted, count, p) ==
    IF count = 0 \/ RLess(p, RInt(0)) \/ RLess(RInt(100), p) THEN NaN
    ELSE LET index == RMul(RDiv(p, RInt(100)), RInt(count - 1))
             lower == RFloor(index)
             upper == RCeil(index)
         IN  IF lower = upper THEN RInt(sorted[lower + 1])
             ELSE LET weight == RSub(index, RInt(lower))
                  IN  RAdd(RMul(RInt(sorted[lower + 1]),
                                RSub(RInt(1), weight)),
                           RMul(RInt(sorted[upper + 1]), weight))

stats_percentile(s, p) ==
    IF ~(~RLess(p, RInt(0)) /\ ~RLess(RInt(100), p)) THEN NaN
    ELSE stats_percentile_from_sorted(copy_and_sort_time_data(s), s.count, p)

\* percentile_lua of samples.c, for an integer p in 0..100
percentile_lua(s, p) ==
    IF s.count # 0 THEN stats_percentile(s, RInt(p)) ELSE NaN

\* variance_lua answering 0 for a single sample, as stats_variance does
variance_lua_single_zero(s) ==
    IF s.count = 1 THEN RInt(0)
    ELSE IF s.count < 2 THEN NaN ELSE RDiv(s.M2, RInt(s.count - 1))

\* variance_lua of samples.c: M2 / (count - 1), NaN below two samples
variance_lua(s) ==
    IF s.count < 2 THEN NaN ELSE RDiv(s.M2, RInt(s.count - 1))

\* min_lua and max_lua of samples.c report the aggregates
min_lua(s) == IF s.count = 0 THEN NaN ELSE RInt(lua_pushinteger(s.min))
max_lua(s) == IF s.count = 0 THEN NaN ELSE RInt(lua_pushinteger(s.max))

(* ----------------------- inputs ---------------------------------------- *)
TimeVals == 0..MaxTime
KbVals == 0..MaxKb

\* sequences over S of length at most n
RECURSIVE SeqsUpTo(_, _)
SeqsUpTo(S, n) ==
    IF n = 0 THEN {<<>>}
    ELSE LET shorter == SeqsUpTo(S, n - 1)
         IN  shorter \cup {Append(q, x) : q \in {r \in shorter : Len(r) = n - 1},
                                          x \in S}

\* the table handed to restore: arrays of the same length len(ts), every
\* before_kb entry b and every after_kb entry a
RestoreTable(name, capacity, count, base_kb, ts, b, a) ==
    [name |-> IF name = "" THEN <<>> ELSE <<name>>,
     capacity |-> capacity, count |-> count, gc_step |-> 0,
     cl |-> DEFAULT_CL, rciw |-> DEFAULT_RCIW,
     sum |-> 0, min |-> 0, max |-> 0, M2 |-> RInt(0), mean |-> RInt(0),
     base_kb |-> base_kb,
     time_ns |-> [k \in 1..Len(ts) |-> RInt(ts[k])],
     before_kb |-> [k \in 1..Len(ts) |-> RInt(b)],
     after_kb |-> [k \in 1..Len(ts) |-> RInt(a)],
     allocated_kb |->
         [k \in 1..Len(ts) |-> RInt(IF a > b THEN a - b ELSE 0)]]

\* well-formed tables of every length up to MaxNewCapacity, and tables with
\* one sample whose capacity, count or base_kb may be out of range
RestoreTables ==
    {RestoreTable("", MaxNewCapacity, Len(ts), 1, ts, 0, MaxKb) :
        ts \in SeqsUpTo(1..MaxTime, MaxNewCapacity)}
    \cup
    {RestoreTable("", capacity, count, base_kb, <<1>>, 0, MaxKb) :
        capacity \in 0..1, count \in 0..2, base_kb \in 0..1}

(* ----------------------- state ----------------------------------------- *)
VARIABLES
    sets,   \* the sample objects created so far, in creation order
    last,   \* the operation that ran last and what it returned
    nops    \* number of operations run

vars == <<sets, last, nops>>

Ids == 1..Len(sets)

Result(op, id, rc, err, arg) ==
    [op |-> op, id |-> id, rc |-> rc, err |-> err, arg |-> arg]

Init ==
    /\ sets = <<>>
    /\ last = Result("init", 0, 0, "", <<>>)
    /\ nops = 0

Step == nops < MaxOps /\ nops' = nops + 1

\* new_lua with a non-table first argument
New(name, capacity, gc_step, cl, rciw) ==
    /\ Step
    /\ Len(sets) < MaxSets
    /\ IF capacity <= 0
       THEN /\ last' = Result("new", 0, -1, "capacity must be > 0", <<>>)
            /\ UNCHANGED sets
       ELSE IF cl <= 0 \/ cl > 100
       THEN /\ last' = Result("new", 0, -1, "cl must be in 0 < cl <= 100", <<>>)
            /\ UNCHANGED sets
       ELSE IF rciw <= 0 \/ rciw > 100
       THEN /\ last' = Result("new", 0, -1,
                              "rciw must be in 0 < rciw <= 100", <<>>)
            /\ UNCHANGED sets
       ELSE /\ sets' = Append(sets,
                         new_measure_samples(name, capacity, gc_step, cl, rciw))
            /\ last' = Result("new", Len(sets) + 1, 0, "", <<>>)

\* new_lua with a table first argument: restore_lua
Restore(t) ==
    /\ Step
    /\ Len(sets) < MaxSets
    /\ LET r == restore_lua(t)
       IN  IF r.ok
           THEN /\ sets' = Append(sets, r.s)
                /\ last' = Result("restore", Len(sets) + 1, 0, "", <<>>)
           ELSE /\ last' = Result("restore", 0, -1, r.err, <<>>)
                /\ UNCHANGED sets

\* append: measure_samples_update_sample_ex on an existing object
AppendSample(i, elapsed, before_kb, after_kb) ==
    /\ Step
    /\ LET r == measure_samples_update_sample_ex(sets[i], elapsed,
                                                 before_kb, after_kb)
       IN  /\ sets' = [sets EXCEPT ![i] = r.s]
           /\ last' = Result("append", i, r.rc, r.errno, <<>>)

\* one iteration of the loop of sampling_lua: init_sample at time start, the
\* call of the measured function, update_sample at time stop
Sample(i, start, stop, before_kb, after_kb) ==
    /\ Step
    /\ LET r1 == measure_samples_init_sample(sets[i], start, before_kb)
           r2 == measure_samples_update_sample(r1.s, stop, after_kb)
       IN  IF r1.rc < 0
           THEN /\ last' = Result("sample", i, -1, r1.errno, <<>>)
                /\ UNCHANGED sets
           ELSE /\ sets' = [sets EXCEPT ![i] = r2.s]
                /\ last' = Result("sample", i, r2.rc, r2.errno, <<>>)

\* the head of sampling_lua: the optional clear, then the preprocess step
Preprocess(i, clear, gc_count_kb) ==
    /\ Step
    /\ sets' = [sets EXCEPT ![i] =
                  measure_samples_preprocess(
                      IF clear THEN measure_samples_clear(@) ELSE @,
                      gc_count_kb)]
    /\ last' = Result("preprocess", i, 0, "", <<>>)

\* clear: measure_samples_clear; the result remembers how many samples the
\* object held
Clear(i) ==
    /\ Step
    /\ sets' = [sets EXCEPT ![i] = measure_samples_clear(@)]
    /\ last' = Result("clear", i, 0, "", <<sets[i].count>>)

\* the slots of the block capacity_lua allocates that it never writes
UninitSlots(s, increase) ==
    IF increase > 0 THEN (s.count + increase + 1)..(s.capacity + increase)
    ELSE {}

\* grow: capacity_lua with an increase
Grow(i, increase, junk) ==
    /\ Step
    /\ sets[i].capacity + increase <= MaxCapacity
    /\ LET r == capacity_lua(sets[i], increase, junk)
       IN  /\ sets' = [sets EXCEPT ![i] = r.s]
           /\ last' = Result("grow", i, IF r.err = "" THEN 0 ELSE -1, r.err,
                             <<increase>>)

\* merge: merge_lua on the objects named by ids
Merge(name, ids) ==
    /\ Step
    /\ Len(sets) < MaxSets
    /\ LET list == [k \in 1..Len(ids) |-> sets[ids[k]]]
           r == merge_lua(name, list)
       IN  /\ total_capacity(list, 1) <= MaxCapacity
           /\ IF r.err = ""
              THEN /\ sets' = Append(sets, r.s)
                   /\ last' = Result("merge", Len(sets) + 1, 0, "", ids)
              ELSE /\ last' = Result("merge", 0, -1, r.err, ids)
                   /\ UNCHANGED sets

Next ==
    \/ \E name \in Names, capacity \in 0..MaxNewCapacity, gc_step \in {-2},
          cl \in {0, DEFAULT_CL}, rciw \in {DEFAULT_RCIW, 101} :
          New(name, capacity, gc_step, cl, rciw)
    \/ \E t \in RestoreTables : Restore(t)
    \/ \E i \in Ids, elapsed \in 1..MaxTime, before_kb \in KbVals :
          AppendSample(i, elapsed, before_kb, MaxKb - before_kb)
    \/ \E i \in Ids, start \in {MaxTime}, elapsed \in TimeVals,
          before_kb \in KbVals :
          Sample(i, start, start + elapsed, before_kb, before_kb)
    \/ \E i \in Ids, clear \in BOOLEAN, gc_count_kb \in 1..MaxKb :
          Preprocess(i, clear, gc_count_kb)
    \/ \E i \in Ids : Clear(i)
    \/ \E i \in Ids, increase \in (-1)..MaxIncrease :
          \E junk \in [UninitSlots(sets[i], increase) -> Uninit] :
              Grow(i, increase, junk)
    \/ \E ids \in SeqsUpTo(Ids, 2) : Merge("m", ids)

Spec == Init /\ [][Next]_vars

(* ----------------------- properties ------------------------------------ *)
Max(a, b) == IF a > b THEN a ELSE b

\* the samples an object holds: its first count slots
Stored(s) == [k \in 1..s.count |-> s.data[k]]

\* the aggregates of an object
Aggregates(s) ==
    [count |-> s.count, sum |-> s.sum, min |-> s.min, max |-> s.max,
     mean |-> s.mean, M2 |-> s.M2, sum_allocated_kb |-> s.sum_allocated_kb]

\* the aggregates as the object reports them: min and max through min() and
\* max(), which are NaN for an empty object
Reported(s) ==
    [Aggregates(s) EXCEPT !.min = min_lua(s), !.max = max_lua(s)]

\* C1: every sample object has 0 <= count <= capacity, whatever operations
\* (new, restore, append, clear, grow, merge) ran.
C1_CountWithinCapacity ==
    \A i \in Ids : 0 <= sets[i].count /\ sets[i].count <= sets[i].capacity

\* a merge has just produced an object that is full, with two or more samples
C1_Witness ==
    /\ last.op = "merge" /\ last.rc = 0
    /\ sets[last.id].count = sets[last.id].capacity
    /\ sets[last.id].count >= 2

\* C2: an append to an object whose count equals its capacity returns -1 with
\* ENOSPC and changes nothing of the object: count, slots and aggregates.
C2_AppendFullFails ==
    [][\A i \in Ids :
          (last'.op = "append" /\ last'.id = i
             /\ sets[i].count = sets[i].capacity)
          => (last'.rc = -1 /\ last'.err = "ENOSPC" /\ sets' = sets)]_vars

\* an append has just been refused on a full object that holds samples
C2_Witness ==
    /\ last.op = "append" /\ last.rc = -1
    /\ sets[last.id].count = sets[last.id].capacity
    /\ sets[last.id].count >= 1

RECURSIVE Concat(_, _)
Concat(list, i) ==
    IF i > Len(list) THEN <<>>
    ELSE Stored(list[i]) \o Concat(list, i + 1)

\* samples[i..] appended to s, one after the other
RECURSIVE AppendAll(_, _, _)
AppendAll(s, samples, i) ==
    IF i > Len(samples) THEN s
    ELSE AppendAll(
             measure_samples_update_sample_ex(
                 s, samples[i].time_ns, samples[i].before_kb,
                 samples[i].after_kb).s,
             samples, i + 1)

\* the objects a merge that has just run was given (a merge leaves them as
\* they were, see C10)
MergeInputs == [k \in 1..Len(last.arg) |-> sets[last.arg[k]]]

\* an empty object of the given capacity with cleared aggregates (min at its
\* sentinel), to which the samples of the merged objects are appended
FreshAppended(capacity, samples) ==
    AppendAll(measure_samples_clear(
                  new_measure_samples("m", capacity, 0, DEFAULT_CL,
                                      DEFAULT_RCIW)),
              samples, 1)

\* C4: the aggregates of a merged object (count, sum, min, max,
\* sum_allocated_kb, mean, M2) equal those of one fresh object to which the
\* samples of the inputs were appended in input order.
C4_MergeEqualsAppend ==
    (last.op = "merge" /\ last.rc = 0)
    => Reported(sets[last.id]) =
          Reported(FreshAppended(sets[last.id].capacity,
                                 Concat(MergeInputs, 1)))

\* C5: restoring the dump of any object succeeds and gives an object with the
\* same name, capacity, count, gc_step, cl, rciw, base_kb, sum, min, max, M2,
\* mean and the same four arrays.
C5_RestoreDumpRoundTrip ==
    \A i \in Ids :
        LET r == restore_lua(dump_lua(sets[i]))
        IN  r.ok /\ dump_lua(r.s) = dump_lua(sets[i])

\* C6: for every non-empty object percentile(0) is the value min() reports
\* and percentile(100) is the value max() reports.
C6_PercentileMinMax ==
    \A i \in Ids :
        sets[i].count > 0
        => /\ percentile_lua(sets[i], 0) = min_lua(sets[i])
           /\ percentile_lua(sets[i], 100) = max_lua(sets[i])

\* C7: in every object with count >= 1 the min aggregate is at most, and the
\* max aggregate at least, the time_ns of every stored sample.
C7_MinMaxBracket ==
    \A i \in Ids : \A k \in 1..sets[i].count :
        /\ sets[i].min <= sets[i].data[k].time_ns
        /\ sets[i].data[k].time_ns <= sets[i].max

\* a merge has just produced an object that holds samples of different
\* times, with max the largest of them
C7_Witness ==
    /\ last.op = "merge" /\ last.rc = 0
    /\ \E k1, k2 \in 1..sets[last.id].count :
          /\ sets[last.id].data[k1].time_ns < sets[last.id].data[k2].time_ns
          /\ sets[last.id].data[k2].time_ns = sets[last.id].max
          /\ sets[last.id].data[k1].time_ns = sets[last.id].min

\* C8: after a successful grow every slot from count up to the new capacity
\* is zeroed.
C8_GrowZeroesTail ==
    (last.op = "grow" /\ last.rc = 0)
    => \A k \in (sets[last.id].count + 1)..sets[last.id].capacity :
          sets[last.id].data[k] = ZeroData

\* C9: a grow by extra > 0 adds exactly extra to the capacity and keeps
\* count, the stored samples and the aggregates (and every other field); a
\* grow by extra <= 0 fails and changes nothing.
C9_GrowFrame ==
    [][last'.op = "grow"
       => LET i == last'.id
              extra == last'.arg[1]
          IN  /\ last'.rc = (IF extra > 0 THEN 0 ELSE -1)
              /\ \A j \in Ids : j # i => sets'[j] = sets[j]
              /\ Len(sets') = Len(sets)
              /\ extra > 0 =>
                   /\ sets'[i].capacity = sets[i].capacity + extra
                   /\ Len(sets'[i].data) = sets'[i].capacity
                   /\ Stored(sets'[i]) = Stored(sets[i])
                   /\ Aggregates(sets'[i]) = Aggregates(sets[i])
                   /\ [sets'[i] EXCEPT !.capacity = 0, !.data = <<>>] =
                      [sets[i] EXCEPT !.capacity = 0, !.data = <<>>]
              /\ ~(extra > 0) => sets' = sets]_vars

\* an object that holds samples and has free slots has just been grown
C9_Witness ==
    /\ last.op = "grow" /\ last.rc = 0
    /\ sets[last.id].count >= 1
    /\ sets[last.id].capacity >= sets[last.id].count + last.arg[1] + 1

\* a grow by a non-positive amount has just been refused
C9_WitnessRefused ==
    last.op = "grow" /\ last.rc = -1

\* the sum of the capacities, and of the counts, of the objects of list
RECURSIVE SumOf(_, _, _)
SumOf(list, field, i) ==
    IF i > Len(list) THEN 0
    ELSE (IF field = "capacity" THEN list[i].capacity ELSE list[i].count)
         + SumOf(list, field, i + 1)

\* C10: a merge produces a new object whose capacity is the sum of the input
\* capacities, whose count is the sum of the input counts and whose stored
\* samples are the inputs' samples in input order; every object that existed
\* before the merge is unchanged.
C10_MergeConcatenates ==
    [][last'.op = "merge"
       => LET inputs == [k \in 1..Len(last'.arg) |-> sets[last'.arg[k]]]
          IN  IF last'.rc = 0
              THEN /\ Len(sets') = Len(sets) + 1
                   /\ last'.id = Len(sets')
                   /\ \A j \in Ids : sets'[j] = sets[j]
                   /\ sets'[last'.id].capacity = SumOf(inputs, "capacity", 1)
                   /\ Len(sets'[last'.id].data) = sets'[last'.id].capacity
                   /\ sets'[last'.id].count = SumOf(inputs, "count", 1)
                   /\ Stored(sets'[last'.id]) = Concat(inputs, 1)
              ELSE sets' = sets]_vars

\* two different objects that both hold samples have just been merged
C10_Witness ==
    /\ last.op = "merge" /\ last.rc = 0
    /\ Len(last.arg) = 2
    /\ last.arg[1] # last.arg[2]
    /\ sets[last.arg[1]].count >= 1
    /\ sets[last.arg[2]].count >= 1
    /\ Stored(sets[last.arg[1]]) # Stored(sets[last.arg[2]])

(* ----------------------- restore: every kind of record ----------------- *)
\* the four arrays of a dumped record, in the order dump_lua writes them
ArrayFields == <<"time_ns", "before_kb", "after_kb", "allocated_kb">>

\* entries an array must not hold: a negative integer and a non-integer
BadEntries == <<RInt(-1), Rat(1, 2)>>

\* the record a description d stands for: the scalar fields of d, array
\* number a of length d.lens[a] holding 1 everywhere, except that entry
\* d.bad[2] of array d.bad[1] is BadEntries[d.bad[3]] (no array when 0)
RestoreRecord(d) ==
    LET arr(a) == [k \in 1..d.lens[a] |->
                      IF d.bad[1] = a /\ d.bad[2] = k
                      THEN BadEntries[d.bad[3]] ELSE RInt(1)]
    IN  [name |-> <<>>,
         capacity |-> d.capacity, count |-> d.count, gc_step |-> 0,
         cl |-> d.cl, rciw |-> d.rciw,
         sum |-> 0, min |-> 0, max |-> 0, M2 |-> RInt(0), mean |-> RInt(0),
         base_kb |-> d.base_kb,
         time_ns |-> arr(1), before_kb |-> arr(2), after_kb |-> arr(3),
         allocated_kb |-> arr(4)]

\* records whose scalar fields take every combination of a valid and an
\* invalid value, with well-formed arrays
ScalarRecords ==
    {[capacity |-> capacity, count |-> count, cl |-> cl, rciw |-> rciw,
      base_kb |-> base_kb,
      lens |-> [a \in 1..4 |-> IF count \in 0..MaxNewCapacity
                               THEN count ELSE 0],
      bad |-> <<0, 0, 0>>] :
        capacity \in {0, MaxNewCapacity},
        count \in (-1)..(MaxNewCapacity + 1),
        cl \in {0, DEFAULT_CL, 101},
        rciw \in {0, DEFAULT_RCIW, 101},
        base_kb \in 0..1}

\* records with valid scalar fields whose four arrays take every combination
\* of lengths, with at most one bad entry
ArrayRecords ==
    {[capacity |-> MaxNewCapacity, count |-> count,
      cl |-> DEFAULT_CL, rciw |-> DEFAULT_RCIW, base_kb |-> 1,
      lens |-> lens, bad |-> bad] :
        count \in 0..MaxNewCapacity,
        lens \in [1..4 -> 0..MaxNewCapacity],
        bad \in {<<0, 0, 0>>} \cup
                ((1..4) \X (1..MaxNewCapacity) \X (1..2))}

RestoreInputs == ScalarRecords \cup ArrayRecords

InitRestore ==
    /\ sets = <<>>
    /\ last \in {Result("record", 0, 0, "", d) : d \in RestoreInputs}
    /\ nops = 0

\* new_lua with the described record as its first argument: restore_lua
RestoreInput ==
    /\ last.op = "record"
    /\ nops' = nops + 1
    /\ LET r == restore_lua(RestoreRecord(last.arg))
       IN  IF r.ok
           THEN /\ sets' = <<r.s>>
                /\ last' = Result("restore", 1, 0, "", last.arg)
           ELSE /\ last' = Result("restore", 0, -1, r.err, last.arg)
                /\ UNCHANGED sets

NextRestore == RestoreInput

SpecRestore == InitRestore /\ [][NextRestore]_vars

\* array f of record t has a length other than count, or holds an entry
\* that is negative or not an integer
BadArray(t, f) ==
    \/ Len(t[f]) # t.count
    \/ \E k \in 1..Len(t[f]) :
           ~lua_isinteger(t[f][k]) \/ lua_tointeger(t[f][k]) < 0

\* C11: restore rejects a record in which any of the four arrays time_ns,
\* before_kb, after_kb, allocated_kb has a length other than count or holds
\* a negative or non-integer entry, and returns no object for it.
C11_RestoreRejectsBadArrays ==
    last.op = "restore" =>
        LET t == RestoreRecord(last.arg)
        IN  (\E a \in 1..4 : BadArray(t, ArrayFields[a]))
                => last.rc = -1 /\ sets = <<>>

\* the first field, in the order capacity, count, cl, rciw, base_kb, whose
\* value is out of range ("" when none is)
FirstOffending(t) ==
    IF t.capacity <= 0 THEN "capacity"
    ELSE IF t.count < 0 \/ t.count > t.capacity THEN "count"
    ELSE IF t.cl <= 0 \/ t.cl > 100 THEN "cl"
    ELSE IF t.rciw <= 0 \/ t.rciw > 100 THEN "rciw"
    ELSE IF t.base_kb <= 0 THEN "base_kb"
    ELSE ""

\* the field an error message names
FieldNamed(msg) ==
    CASE msg = "invalid field 'capacity': must be > 0" -> "capacity"
      [] msg = "invalid field 'count': must be >= 0 and <= capacity" -> "count"
      [] msg = "invalid field 'cl': must be in range 0 < cl <= 100" -> "cl"
      [] msg = "invalid field 'rciw': must be in range 0 < rciw <= 100"
             -> "rciw"
      [] msg = "invalid field 'base_kb': must be > 0" -> "base_kb"
      [] OTHER -> ""

\* C12: when capacity <= 0, count < 0, count > capacity, cl or rciw is
\* outside (0,100], or base_kb <= 0, restore returns an error and no object;
\* the error names the first offending field in the order capacity, count,
\* cl, rciw, base_kb, so different fields give different messages.
C12_RestoreNamesFirstField ==
    last.op = "restore" =>
        LET t == RestoreRecord(last.arg)
        IN  FirstOffending(t) # ""
                => /\ last.rc = -1
                   /\ sets = <<>>
                   /\ FieldNamed(last.err) = FirstOffending(t)

\* a record with cl, rciw and base_kb all out of range was refused
C12_Witness ==
    /\ last.op = "restore"
    /\ last.rc = -1
    /\ LET t == RestoreRecord(last.arg)
       IN  /\ FirstOffending(t) = "cl"
           /\ t.rciw > 100
           /\ t.base_kb <= 0

(* ----------------------- clear ----------------------------------------- *)
\* C13: clear sets count, sum, max, mean, M2 and sum_allocated_kb to 0 and
\* min to UINT64_MAX, zeroes every slot of the array, and leaves capacity,
\* name, cl, rciw and gc_step as they were.
C13_ClearResets ==
    [][\A i \in Ids :
          (last'.op = "clear" /\ last'.id = i) =>
              LET s == sets[i]
                  c == sets'[i]
              IN  /\ c.count = 0
                  /\ c.sum = 0
                  /\ c.max = 0
                  /\ c.mean = RInt(0)
                  /\ c.M2 = RInt(0)
                  /\ c.sum_allocated_kb = 0
                  /\ c.min = UINT64_MAX
                  /\ Len(c.data) = c.capacity
                  /\ \A k \in 1..c.capacity : c.data[k] = ZeroData
                  /\ c.capacity = s.capacity
                  /\ c.name = s.name
                  /\ c.cl = s.cl
                  /\ c.rciw = s.rciw
                  /\ c.gc_step = s.gc_step]_vars

\* a named object that held two samples has been cleared
C13_Witness ==
    /\ last.op = "clear"
    /\ last.arg = <<2>>
    /\ sets[last.id].name = "a"
    /\ sets[last.id].count = 0
    /\ sets[last.id].capacity >= 2

(* ----------------------- append: running mean and M2 ------------------- *)
\* a new, empty object with room for MaxOps samples
InitAppend ==
    /\ sets = <<new_measure_samples("", MaxOps, -1, DEFAULT_CL, DEFAULT_RCIW)>>
    /\ last = Result("new", 1, 0, "", <<>>)
    /\ nops = 0

\* one more sample of any elapsed time 0..MaxElapsed is appended
NextAppend ==
    \E elapsed \in 0..MaxElapsed : AppendSample(1, elapsed, 0, 0)

SpecAppend == InitAppend /\ [][NextAppend]_vars

\* the sum of f[1..n]
RECURSIVE RSum(_, _)
RSum(f, n) == IF n = 0 THEN RInt(0) ELSE RAdd(RSum(f, n - 1), f[n])

\* the unbiased sample variance of xs computed in two passes: the mean first,
\* then the squared deviations from it, divided by n - 1
TwoPassVariance(xs) ==
    LET n == Len(xs)
        mean == RDiv(RSum([k \in 1..n |-> RInt(xs[k])], n), RInt(n))
        dev2 == [k \in 1..n |->
                    RMul(RSub(RInt(xs[k]), mean), RSub(RInt(xs[k]), mean))]
    IN  RDiv(RSum(dev2, n), RInt(n - 1))

SamplesOf(times) ==
    restore_lua(RestoreTable("", Len(times), Len(times), 1, times, 0, 0)).s

\* the elapsed times of the objects handed to the posthoc tests: pairs of
\* close groups (means 3, 4 and 22, 23, variance 8), a group whose mean ties
\* with the first (mean 3, variance 4), a constant group and a group of one
GroupTimes ==
    <<<<1, 5>>, <<2, 6>>, <<20, 24>>, <<21, 25>>, <<1, 5, 3>>,
      <<2, 2>>, <<5>>>>

\* every list of 1..n objects
GroupLists(n) ==
    {[k \in 1..Len(q) |-> SamplesOf(GroupTimes[q[k]])] :
        q \in SeqsUpTo(1..Len(GroupTimes), n) \ {<<>>}}

\* the permutations of 1..n
RECURSIVE Permutations1(_)
Permutations1(n) ==
    IF n = 0 THEN {<<>>}
    ELSE {[i \in 1..n |-> IF i < k THEN p[i]
                          ELSE IF i = k THEN n ELSE p[i - 1]] :
             p \in Permutations1(n - 1), k \in 1..n}

(* ----------------------- posthoc: Scott-Knott ESD ----------------------- *)
COHEN_D_MEDIUM == Rat(1, 2)

\* calc_cohen_d, squared: sqrt leaves the rationals, so the model keeps
\* d^2 = (mean1 - mean2)^2 / combined_variance, which is 0 when the combined
\* variance is 0; d and the threshold are not negative, so d < threshold
\* exactly when d^2 < threshold^2
calc_cohen_d(mean1, var1, n1, mean2, var2, n2) ==
    LET combined_variance ==
            RDiv(RAdd(RMul(RInt(n1 - 1), var1), RMul(RInt(n2 - 1), var2)),
                 RInt(n1 + n2 - 2))
        diff == RSub(mean1, mean2)
    IN  IF combined_variance = RInt(0) THEN RInt(0)
        ELSE RDiv(RMul(diff, diff), combined_variance)

\* the loops of calc_between_clusters_ss over clusters[from..to-1] (indices
\* from 0, as in the code): the sum of mean * count and the sum of count
RECURSIVE partition_sum(_, _, _)
partition_sum(clusters, from, to) ==
    IF from >= to THEN RInt(0)
    ELSE RAdd(RMul(clusters[from + 1].mean, RInt(clusters[from + 1].count)),
              partition_sum(clusters, from + 1, to))

RECURSIVE partition_count(_, _, _)
partition_count(clusters, from, to) ==
    IF from >= to THEN 0
    ELSE clusters[from + 1].count + partition_count(clusters, from + 1, to)

calc_between_clusters_ss(clusters, start, end, split_point) ==
    IF start >= end \/ split_point <= start \/ split_point >= end
    THEN RInt(0)
    ELSE LET left_sum == partition_sum(clusters, start, split_point)
             right_sum == partition_sum(clusters, split_point, end)
             left_count == partition_count(clusters, start, split_point)
             right_count == partition_count(clusters, split_point, end)
         IN  IF left_count = 0 \/ right_count = 0 THEN RInt(0)
             ELSE LET left_mean == RDiv(left_sum, RInt(left_count))
                      right_mean == RDiv(right_sum, RInt(right_count))
                      overall_mean == RDiv(RAdd(left_sum, right_sum),
                                           RInt(left_count + right_count))
                      dl == RSub(left_mean, overall_mean)
                      dr == RSub(right_mean, overall_mean)
                  IN  RAdd(RMul(RInt(left_count), RMul(dl, dl)),
                           RMul(RInt(right_count), RMul(dr, dr)))

\* the loop of find_optimal_partition from split on: a split replaces the
\* best one only when its sum of squares is strictly greater
RECURSIVE find_optimal_partition_loop(_, _, _, _, _, _)
find_optimal_partition_loop(clusters, start, end, split, max_ss, best_split) ==
    IF split >= end THEN best_split
    ELSE LET ss == calc_between_clusters_ss(clusters, start, end, split)
         IN  IF RLess(max_ss, ss)
             THEN find_optimal_partition_loop(clusters, start, end, split + 1,
                                              ss, split)
             ELSE find_optimal_partition_loop(clusters, start, end, split + 1,
                                              max_ss, best_split)

\* find_optimal_partition whose best_split starts at start
find_optimal_partition_from_start(clusters, start, end) ==
    IF end - start <= 1 THEN start
    ELSE find_optimal_partition_loop(clusters, start, end, start + 1,
                                     RInt(0), start)

find_optimal_partition(clusters, start, end) ==
    IF end - start <= 1 THEN start
    ELSE find_optimal_partition_loop(clusters, start, end, start + 1,
                                     RInt(0), start + 1)

\* the assignments argument of calc_cluster_stats_flexible when it is NULL
NULL == <<>>

\* the loop of calc_cluster_stats_flexible over i = from..to-1: sum, sum_sq
\* and count of the clusters it includes.  assignments is indexed by i here.
RECURSIVE cluster_stats_loop(_, _, _, _, _)
cluster_stats_loop(clusters, from, to, assignments, target_cluster_id) ==
    IF from >= to THEN [sum |-> RInt(0), sum_sq |-> RInt(0), count |-> 0]
    ELSE LET rest == cluster_stats_loop(clusters, from + 1, to, assignments,
                                        target_cluster_id)
             c == clusters[from + 1]
         IN  IF assignments = NULL
                \/ assignments[from + 1] = target_cluster_id
             THEN [sum |-> RAdd(rest.sum, RMul(c.mean, RInt(c.count))),
                   sum_sq |->
                       RAdd(rest.sum_sq,
                            RAdd(RMul(c.variance, RInt(c.count - 1)),
                                 RMul(RMul(c.mean, c.mean), RInt(c.count)))),
                   count |-> rest.count + c.count]
             ELSE rest

calc_cluster_stats_flexible(clusters, start, end, assignments, target_cluster_id) ==
    LET t == cluster_stats_loop(clusters, start, end, assignments,
                                target_cluster_id)
    IN  IF t.count = 0
        THEN [mean |-> RInt(0), variance |-> RInt(0), count |-> 0]
        ELSE LET variance ==
                     RDiv(RSub(t.sum_sq,
                               RDiv(RMul(t.sum, t.sum), RInt(t.count))),
                          RInt(t.count - 1))
             IN  [mean |-> RDiv(t.sum, RInt(t.count)),
                  variance |-> IF RLess(variance, RInt(0)) THEN RInt(0)
                               ELSE variance,
                  count |-> t.count]

calc_combined_stats(clusters, start, end) ==
    calc_cluster_stats_flexible(clusters, start, end, NULL, 0)

calc_cluster_stats(clusters, assignments, num_clusters, cluster_id) ==
    calc_cluster_stats_flexible(clusters, 0, num_clusters, assignments,
                                cluster_id)

\* should_merge_partitions that also merges when cohen_d equals the threshold
should_merge_partitions_inclusive(clusters, start, split, end, threshold) ==
    LET left_stats == calc_combined_stats(clusters, start, split)
        right_stats == calc_combined_stats(clusters, split, end)
    IN  IF left_stats.count = 0 \/ right_stats.count = 0 THEN TRUE
        ELSE ~RLess(RMul(threshold, threshold),
                    calc_cohen_d(left_stats.mean, left_stats.variance,
                                 left_stats.count, right_stats.mean,
                                 right_stats.variance, right_stats.count))

\* threshold is a rational; cohen_d < threshold is decided on the squares
should_merge_partitions(clusters, start, split, end, threshold) ==
    LET left_stats == calc_combined_stats(clusters, start, split)
        right_stats == calc_combined_stats(clusters, split, end)
    IN  IF left_stats.count = 0 \/ right_stats.count = 0 THEN TRUE
        ELSE RLess(calc_cohen_d(left_stats.mean, left_stats.variance,
                                left_stats.count, right_stats.mean,
                                right_stats.variance, right_stats.count),
                   RMul(threshold, threshold))

\* assignments[clusters[i].id] := id for i = start..end-1; the array is kept
\* as a sequence, entry id + 1 for the group of identifier id
assign_range(clusters, start, end, assignments, id) ==
    [k \in 1..Len(assignments) |->
        IF \E i \in start..(end - 1) : clusters[i + 1].id = k - 1
        THEN id ELSE assignments[k]]

\* scott_knott_esd_recursive that does not advance the cluster id after it
\* merged a range into one cluster
RECURSIVE scott_knott_esd_recursive_reuse(_, _, _, _, _, _)
scott_knott_esd_recursive_reuse(clusters, start, end, assignments, current_cluster_id, effect_threshold) ==
    IF end - start <= 1
    THEN [assignments |-> assign_range(clusters, start, end, assignments,
                                       current_cluster_id),
          current_cluster_id |-> current_cluster_id + 1]
    ELSE LET split == find_optimal_partition(clusters, start, end)
         IN  IF should_merge_partitions(clusters, start, split, end,
                                        effect_threshold)
             THEN [assignments |->
                       assign_range(clusters, start, end, assignments,
                                    current_cluster_id),
                   current_cluster_id |-> current_cluster_id]
             ELSE LET left == scott_knott_esd_recursive_reuse(
                                  clusters, start, split, assignments,
                                  current_cluster_id, effect_threshold)
                  IN  scott_knott_esd_recursive_reuse(
                          clusters, split, end, left.assignments,
                          left.current_cluster_id, effect_threshold)

\* scott_knott_esd_recursive: the assignments array and the cluster counter
\* after the call
RECURSIVE scott_knott_esd_recursive(_, _, _, _, _, _)
scott_knott_esd_recursive(clusters, start, end, assignments, current_cluster_id, effect_threshold) ==
    IF end - start <= 1
    THEN [assignments |-> assign_range(clusters, start, end, assignments,
                                       current_cluster_id),
          current_cluster_id |-> current_cluster_id + 1]
    ELSE LET split == find_optimal_partition(clusters, start, end)
         IN  IF should_merge_partitions(clusters, start, split, end,
                                        effect_threshold)
             THEN [assignments |->
                       assign_range(clusters, start, end, assignments,
                                    current_cluster_id),
                   current_cluster_id |-> current_cluster_id + 1]
             ELSE LET left == scott_knott_esd_recursive(
                                  clusters, start, split, assignments,
                                  current_cluster_id, effect_threshold)
                  IN  scott_knott_esd_recursive(
                          clusters, split, end, left.assignments,
                          left.current_cluster_id, effect_threshold)

\* extract_and_validate_samples for a list without nil entries: the error it
\* raises, or the clusters with id = position - 1
extract_and_validate_samples(list) ==
    IF Len(list) = 0
    THEN [err |-> "empty table or hash-like tables not supported",
          clusters |-> <<>>]
    ELSE IF \E k \in 1..Len(list) :
                /\ \A j \in 1..(k - 1) :
                       /\ list[j].count >= 2
                       /\ RLess(RInt(0),
                                RDiv(list[j].M2, RInt(list[j].count - 1)))
                /\ list[k].count < 2
    THEN [err |-> "each cluster must contain at least 2 samples",
          clusters |-> <<>>]
    ELSE IF \E k \in 1..Len(list) :
                ~RLess(RInt(0), RDiv(list[k].M2, RInt(list[k].count - 1)))
    THEN [err |-> "invalid sample statistics or zero variance",
          clusters |-> <<>>]
    ELSE IF Len(list) < 2
    THEN [err |-> "Scott-Knott ESD requires at least two clusters",
          clusters |-> <<>>]
    ELSE [err |-> "",
          clusters |->
              [k \in 1..Len(list) |->
                  [id |-> k - 1,
                   count |-> list[k].count,
                   mean |-> list[k].mean,
                   variance |-> RDiv(list[k].M2, RInt(list[k].count - 1))]]]

\* the orders qsort with compare_clusters_by_mean can leave the clusters in:
\* every arrangement with non-decreasing means (qsort may put clusters of
\* equal mean either way round)
qsort_by_mean(clusters) ==
    {[k \in 1..Len(clusters) |-> clusters[p[k]]] :
        p \in {q \in Permutations1(Len(clusters)) :
                  \A k \in 1..(Len(clusters) - 1) :
                      ~RLess(clusters[q[k + 1]].mean, clusters[q[k]].mean)}}

\* the loop of calc_cohen_d_for_cluster from cluster j on; acc holds
\* max_cohen_d (squared) and compare_cluster
RECURSIVE cohen_d_for_cluster_loop(_, _, _, _, _, _, _)
cohen_d_for_cluster_loop(clusters, assignments, num_samples, num_clusters, cluster_id, j, acc) ==
    IF j >= num_clusters THEN acc
    ELSE IF cluster_id = j
    THEN cohen_d_for_cluster_loop(clusters, assignments, num_samples,
                                  num_clusters, cluster_id, j + 1, acc)
    ELSE LET stats_i == calc_cluster_stats(clusters, assignments, num_samples,
                                           cluster_id)
             stats_j == calc_cluster_stats(clusters, assignments, num_samples,
                                           j)
             cohen_d == calc_cohen_d(stats_i.mean, stats_i.variance,
                                     stats_i.count, stats_j.mean,
                                     stats_j.variance, stats_j.count)
         IN  cohen_d_for_cluster_loop(
                 clusters, assignments, num_samples, num_clusters, cluster_id,
                 j + 1,
                 IF stats_i.count > 0 /\ stats_j.count > 0
                    /\ RLess(acc.max_cohen_d, cohen_d)
                 THEN [max_cohen_d |-> cohen_d,
                       compare_cluster |-> IF num_clusters > 1 THEN j + 1
                                           ELSE 0]
                 ELSE acc)

calc_cohen_d_for_cluster(clusters, assignments, num_samples, num_clusters, cluster_id) ==
    cohen_d_for_cluster_loop(clusters, assignments, num_samples, num_clusters,
                             cluster_id, 0,
                             [max_cohen_d |-> RInt(0), compare_cluster |-> 0])

\* build_result_structure: entry c of the result table.  The loop runs over
\* i = 0..num_samples-1 and reads assignments[i] together with clusters[i],
\* the i-th cluster in sorted order; the sample it adds to cluster
\* assignments[i] + 1 is input number samples[clusters[i].id].idx, which is
\* clusters[i].id + 1.  samples lists those input numbers in loop order.
build_result_structure(clusters, assignments, num_samples, num_clusters) ==
    [c \in 1..num_clusters |->
        LET members == SelectSeq([i \in 1..num_samples |-> i],
                                 LAMBDA i : assignments[i] = c - 1)
            stats == calc_cluster_stats(clusters, assignments, num_samples,
                                        c - 1)
            d == calc_cohen_d_for_cluster(clusters, assignments, num_samples,
                                          num_clusters, c - 1)
        IN  [id |-> c,
             samples |-> [k \in 1..Len(members) |->
                             clusters[members[k]].id + 1],
             mean |-> stats.mean,
             variance |-> stats.variance,
             count |-> stats.count,
             max_contrast_with |-> d.compare_cluster,
             cohen_d |-> d.max_cohen_d]]

\* scott_knott_esd_lua on list with the clusters sorted as sorted: the
\* assignments, the number of clusters and the result table
scott_knott_esd_lua(sorted, effect_threshold) ==
    LET num_samples == Len(sorted)
        r == scott_knott_esd_recursive(
                 sorted, 0, num_samples, [k \in 1..num_samples |-> -1], 0,
                 effect_threshold)
    IN  [sorted |-> sorted,
         assignments |-> r.assignments,
         num_clusters |-> r.current_cluster_id,
         result |-> build_result_structure(sorted, r.assignments, num_samples,
                                           r.current_cluster_id)]

\* the thresholds passed: none (the default) and a large one
Thresholds == {COHEN_D_MEDIUM, RInt(10)}

InitSkesd ==
    /\ sets \in GroupLists(MaxGroups)
    /\ last \in {Result("groups", 0, 0, "", <<t>>) : t \in Thresholds}
    /\ nops = 0

\* scott_knott_esd_lua(sets, threshold)
ScottKnottEsd ==
    /\ last.op = "groups"
    /\ nops' = nops + 1
    /\ UNCHANGED sets
    /\ LET v == extract_and_validate_samples(sets)
       IN  IF v.err # ""
           THEN last' = Result("skesd", 0, -1, v.err, <<>>)
           ELSE \E sorted \in qsort_by_mean(v.clusters) :
                    last' = Result("skesd", 0, 0, "",
                                   scott_knott_esd_lua(sorted, last.arg[1]))

NextSkesd == ScottKnottEsd

SpecSkesd == InitSkesd /\ [][NextSkesd]_vars

\* C15: for every order of the input groups the clusters returned are ranked
\* by mean: cluster k holds exactly the groups the partitioning assigned to
\* it, so every member of cluster k has a mean no greater than every member
\* of cluster k + 1.
C15_ClustersRankedByMean ==
    (last.op = "skesd" /\ last.rc = 0) =>
        LET out == last.arg.result
            members(k) == {out[k].samples[j] : j \in 1..Len(out[k].samples)}
        IN  /\ \A k \in 1..Len(out) :
                   /\ members(k) = {g \in 1..Len(sets) :
                                      last.arg.assignments[g] = k - 1}
                   /\ Cardinality(members(k)) = Len(out[k].samples)
            /\ \A k \in 1..(Len(out) - 1) :
                   \A a \in members(k), b \in members(k + 1) :
                       ~RLess(sets[b].mean, sets[a].mean)

\* C16: Scott-Knott ESD gives every group exactly one cluster id, the ids
\* used are exactly 0..K-1 with 1 <= K <= N, and along the mean-sorted order
\* the ids never decrease (they are handed out left to right, one by one).
C16_ClusterIdsInOrder ==
    (last.op = "skesd" /\ last.rc = 0) =>
        LET a == last.arg.assignments
            K == last.arg.num_clusters
            sorted == last.arg.sorted
            N == Len(sets)
            idAt(i) == a[sorted[i].id + 1]
        IN  /\ Len(a) = N
            /\ 1 <= K /\ K <= N
            /\ {a[g] : g \in 1..N} = 0..(K - 1)
            /\ \A i \in 1..(N - 1) :
                   idAt(i + 1) = idAt(i) \/ idAt(i + 1) = idAt(i) + 1
            /\ idAt(1) = 0

\* MaxGroups groups passed out of mean order were put into two clusters of
\* more than one group each
C16_Witness ==
    /\ last.op = "skesd"
    /\ last.rc = 0
    /\ Len(sets) = MaxGroups
    /\ last.arg.num_clusters = 2
    /\ RLess(sets[2].mean, sets[1].mean)
    /\ \A c \in 0..1 :
           Cardinality({g \in 1..Len(sets) :
                           last.arg.assignments[g] = c}) >= 2

(* ----------------------- posthoc: Welch t-test, Holm -------------------- *)
\* calc_welch_t_test: the square of the t statistic (its sqrt leaves the
\* rationals; the p-value depends on |t| only) and the degrees of freedom
calc_welch_t_test(mean1, var1, n1, mean2, var2, n2) ==
    LET se1 == RDiv(var1, RInt(n1))
        se2 == RDiv(var2, RInt(n2))
        se_diff2 == RAdd(se1, se2)
        diff == RSub(mean1, mean2)
        df_num == RMul(se_diff2, se_diff2)
        df_denom == RAdd(RDiv(RMul(se1, se1), RInt(n1 - 1)),
                         RDiv(RMul(se2, se2), RInt(n2 - 1)))
    IN  [t_stat2 |-> IF RLess(RInt(0), se_diff2)
                     THEN RDiv(RMul(diff, diff), se_diff2) ELSE RInt(0),
         df |-> IF RLess(RInt(0), df_denom) THEN RDiv(df_num, df_denom)
                ELSE RInt(n1 + n2 - 2)]

\* calc_two_tailed_p_value on t^2 and df.  The code fixes three cases:
\* df <= 0 gives 1; |t| > 100 gives cdf 1, so p = 0; t = 0 gives cdf 1/2, so
\* p = 1.  Elsewhere the value comes from the incomplete beta function
\* (log-gamma and a continued fraction), which rational arithmetic cannot
\* follow: there it is beta, some value of [0, 1] after the clamp.
calc_two_tailed_p_value(t2, df, beta) ==
    IF ~RLess(RInt(0), df) THEN RInt(1)
    ELSE IF RLess(RInt(100 * 100), t2) THEN RInt(0)
    ELSE IF t2 = RInt(0) THEN RInt(1)
    ELSE beta

\* the pairs (i, j), i < j <= n, in the order of the loops of
\* perform_pairwise_tests, from (i, j) on
RECURSIVE pairwise_loop(_, _, _)
pairwise_loop(i, j, n) ==
    IF i > n THEN <<>>
    ELSE IF j > n THEN pairwise_loop(i + 1, i + 2, n)
    ELSE <<<<i, j>>>> \o pairwise_loop(i, j + 1, n)

\* perform_pairwise_tests: one result per pair, in loop order; betas[k] is
\* the value of the incomplete beta function for comparison k
perform_pairwise_tests(samples, betas) ==
    LET pairs == pairwise_loop(1, 2, Len(samples))
    IN  [k \in 1..Len(pairs) |->
            LET s1 == samples[pairs[k][1]]
                s2 == samples[pairs[k][2]]
                var1 == RDiv(s1.M2, RInt(s1.count - 1))
                var2 == RDiv(s2.M2, RInt(s2.count - 1))
                w == calc_welch_t_test(s1.mean, var1, s1.count,
                                       s2.mean, var2, s2.count)
                p_value == calc_two_tailed_p_value(w.t_stat2, w.df, betas[k])
            IN  [idx1 |-> pairs[k][1], idx2 |-> pairs[k][2],
                 t_statistic2 |-> w.t_stat2, df |-> w.df,
                 p_value |-> p_value, p_adjusted |-> p_value]]

\* the arrangements qsort with compare_pairwise_by_pvalue can produce: the
\* permutations p for which results[p[1]], results[p[2]], ... has
\* non-decreasing p-values (equal p-values may come out either way round)
qsort_by_pvalue(results) ==
    {p \in Permutations1(Len(results)) :
        \A k \in 1..(Len(results) - 1) :
            ~RLess(results[p[k + 1]].p_value, results[p[k]].p_value)}

\* the loop of apply_holm_correction from entry i (from 1) on
RECURSIVE holm_loop(_, _)
holm_loop(results, i) ==
    IF i > Len(results) THEN results
    ELSE LET n_comparisons == Len(results)
             raw == RMul(results[i].p_value, RInt(n_comparisons - (i - 1)))
             mono == IF i > 1 /\ RLess(raw, results[i - 1].p_adjusted)
                     THEN results[i - 1].p_adjusted ELSE raw
             adjusted == IF RLess(RInt(1), mono) THEN RInt(1) ELSE mono
         IN  holm_loop([results EXCEPT ![i].p_adjusted = adjusted], i + 1)

\* the loop of apply_holm_correction without the monotonicity step
RECURSIVE holm_loop_plain(_, _)
holm_loop_plain(results, i) ==
    IF i > Len(results) THEN results
    ELSE LET n_comparisons == Len(results)
             raw == RMul(results[i].p_value, RInt(n_comparisons - (i - 1)))
             adjusted == IF RLess(RInt(1), raw) THEN RInt(1) ELSE raw
         IN  holm_loop_plain([results EXCEPT ![i].p_adjusted = adjusted],
                             i + 1)

\* apply_holm_correction that never raises an adjusted value to the one
\* before it
apply_holm_correction_plain(results, p) ==
    holm_loop_plain([k \in 1..Len(results) |-> results[p[k]]], 1)

\* apply_holm_correction whose sort moves the p-values alone and leaves
\* idx1, idx2 and the statistics where they were
apply_holm_correction_pvalues(results, p) ==
    holm_loop([k \in 1..Len(results) |->
                  [results[k] EXCEPT !.p_value = results[p[k]].p_value]], 1)

\* apply_holm_correction: qsort arranges the results as p says (whole
\* structs move), then the loop adjusts them
apply_holm_correction(results, p) ==
    holm_loop([k \in 1..Len(results) |-> results[p[k]]], 1)

\* build_result_table: pair, p_value and p_adjusted of every result, in order
build_result_table(results) ==
    [k \in 1..Len(results) |->
        [pair |-> <<results[k].idx1, results[k].idx2>>,
         p_value |-> results[k].p_value,
         p_adjusted |-> results[k].p_adjusted]]

\* validate_input_samples and extract_samples: the error raised, "" if none
extract_samples(list) ==
    IF Len(list) < 2 THEN "welcht: minimum 2 samples required"
    ELSE IF \E k \in 1..Len(list) : list[k].count < 2
    THEN "welcht: sample contains too few values, minimum 2 required"
    ELSE ""

\* the elapsed times of the objects compared: two far apart (|t| > 100) and
\* one in between
ComparedTimes == <<<<1, 2>>, <<101, 102>>, <<3, 7>>>>

\* every list of 1..MaxCompared of these objects, and one list whose first
\* object holds a single sample
ComparedLists ==
    {[k \in 1..Len(q) |-> SamplesOf(ComparedTimes[q[k]])] :
        q \in SeqsUpTo(1..Len(ComparedTimes), MaxCompared) \ {<<>>}}
    \cup {<<SamplesOf(<<5>>), SamplesOf(ComparedTimes[1])>>}

\* values the incomplete beta function may give
BetaValues == {Rat(3, 10), Rat(3, 5)}

n_comparisons(n_samples) == (n_samples * (n_samples - 1)) \div 2

\* the values the incomplete beta function gives in a run over list: one
\* per comparison that evaluates it; a comparison whose p-value the code
\* fixes, and every comparison of a list that is refused, never reads its
\* entry, which stays NaN
BetasFor(list) ==
    LET n == n_comparisons(Len(list))
        fixed == IF extract_samples(list) # "" THEN [k \in 1..n |-> RInt(1)]
                 ELSE LET r == perform_pairwise_tests(list,
                                                      [k \in 1..n |-> NaN])
                      IN  [k \in 1..n |-> r[k].p_value]
    IN  {betas \in [1..n -> BetaValues \cup {NaN}] :
            \A k \in 1..n : (betas[k] = NaN) <=> (fixed[k] # NaN)}

InitWelch ==
    /\ sets \in ComparedLists
    /\ last \in {Result("groups", 0, 0, "", betas) : betas \in BetasFor(sets)}
    /\ nops = 0

\* welch_t_test_lua(sets)
WelchTTest ==
    /\ last.op = "groups"
    /\ nops' = nops + 1
    /\ UNCHANGED sets
    /\ IF extract_samples(sets) # ""
       THEN last' = Result("welcht", 0, -1, extract_samples(sets), <<>>)
       ELSE LET results == perform_pairwise_tests(sets, last.arg)
            IN  \E p \in qsort_by_pvalue(results) :
                    last' = Result(
                        "welcht", 0, 0, "",
                        [betas |-> last.arg,
                         results |-> apply_holm_correction(results, p),
                         table |-> build_result_table(
                                       apply_holm_correction(results, p))])

NextWelch == WelchTTest

SpecWelch == InitWelch /\ [][NextWelch]_vars

\* C17: the Holm-corrected p-values, taken in ascending order of raw
\* p-value, never decrease; each is >= its raw p-value and <= 1, for raw
\* p-values in [0, 1].
C17_HolmMonotone ==
    (last.op = "welcht" /\ last.rc = 0) =>
        LET t == last.arg.table
        IN  /\ \A k \in 1..(Len(t) - 1) :
                   /\ ~RLess(t[k + 1].p_value, t[k].p_value)
                   /\ ~RLess(t[k + 1].p_adjusted, t[k].p_adjusted)
            /\ \A k \in 1..Len(t) :
                   /\ ~RLess(t[k].p_adjusted, t[k].p_value)
                   /\ ~RLess(RInt(1), t[k].p_adjusted)

\* three comparisons: the second raw value times 2 is above 1 and was cut
\* to 1; the third, below 1, was raised to the corrected value before it
C17_Witness ==
    /\ last.op = "welcht"
    /\ last.rc = 0
    /\ LET t == last.arg.table
       IN  /\ Len(t) = n_comparisons(MaxCompared)
           /\ RLess(t[1].p_value, t[2].p_value)
           /\ RLess(RInt(1), RMul(RInt(Len(t) - 1), t[2].p_value))
           /\ t[2].p_adjusted = RInt(1)
           /\ RLess(t[Len(t)].p_value, RInt(1))
           /\ t[Len(t)].p_adjusted = RInt(1)

\* the p-value of the comparison of objects i and j, from their statistics
PairPValue(i, j, beta) ==
    LET var(s) == RDiv(s.M2, RInt(s.count - 1))
        w == calc_welch_t_test(sets[i].mean, var(sets[i]), sets[i].count,
                               sets[j].mean, var(sets[j]), sets[j].count)
    IN  calc_two_tailed_p_value(w.t_stat2, w.df, beta)

\* the number of the pair (i, j) in the order i < j, (1,2), (1,3), ...
PairNumber(i, j, n) ==
    Cardinality({q \in (1..n) \X (1..n) :
                    /\ q[1] < q[2]
                    /\ q[1] < i \/ (q[1] = i /\ q[2] <= j)})

\* C18: compare_all on n >= 2 objects returns n(n-1)/2 results, one for
\* every pair i < j and none twice; after the sort of the Holm step each
\* result carries the pair whose statistics produced its p_value and its
\* p_adjusted (its p-value times the number of results not before it, raised
\* to the largest such product before it, at most 1).
C18_PairsKeepTheirValues ==
    (last.op = "welcht" /\ last.rc = 0) =>
        LET t == last.arg.table
            n == Len(sets)
            m == Len(t)
            holm(k) == RMul(t[k].p_value, RInt(m - k + 1))
        IN  /\ m * 2 = n * (n - 1)
            /\ {t[k].pair : k \in 1..m} =
                   {q \in (1..n) \X (1..n) : q[1] < q[2]}
            /\ \A k \in 1..m :
                   /\ t[k].p_value =
                          PairPValue(t[k].pair[1], t[k].pair[2],
                                     last.arg.betas[PairNumber(
                                         t[k].pair[1], t[k].pair[2], n)])
                   /\ \E j \in 1..k :
                          /\ \A i \in 1..k : ~RLess(holm(j), holm(i))
                          /\ t[k].p_adjusted =
                                 IF RLess(RInt(1), holm(j)) THEN RInt(1)
                                 ELSE holm(j)

\* three objects were compared and the sort moved the last pair to the front
C18_Witness ==
    /\ last.op = "welcht"
    /\ last.rc = 0
    /\ Len(sets) = MaxCompared
    /\ last.arg.table[1].pair = <<MaxCompared - 1, MaxCompared>>
    /\ RLess(last.arg.table[1].p_value, last.arg.table[2].p_value)
    /\ RLess(last.arg.table[1].p_adjusted, last.arg.table[2].p_adjusted)

(* ----------------------- stats: outliers -------------------------------- *)
MIN_SAMPLES_OUTLIER_DETECTION == 4
MIN_SAMPLES_MAD_OUTLIER == 3
OUTLIER_TUKEY_MULTIPLIER == Rat(3, 2)
OUTLIER_MAD_DEFAULT == Rat(5, 2)

is_valid_number(value) == value # NaN

RAbs(a) == IF RLess(a, RInt(0)) THEN RSub(RInt(0), a) ELSE a

\* x <= STATS_EPSILON.  STATS_EPSILON is 1e-15: a positive rational n/d with
\* d below 10^15, as every denominator here is, lies above it, so the test
\* succeeds exactly when x <= 0
at_most_STATS_EPSILON(x) == ~RLess(RInt(0), x)

\* qsort with compare_double: the values in ascending order
RECURSIVE InsertSortedDouble(_, _)
InsertSortedDouble(x, seq) ==
    IF seq = <<>> THEN <<x>>
    ELSE IF ~RLess(Head(seq), x) THEN <<x>> \o seq
    ELSE <<Head(seq)>> \o InsertSortedDouble(x, Tail(seq))

RECURSIVE qsort_double(_)
qsort_double(seq) ==
    IF seq = <<>> THEN <<>>
    ELSE InsertSortedDouble(Head(seq), qsort_double(Tail(seq)))

\* stats_mad, lines 351-364: the median of the sorted deviations
mad_of_deviations(deviations, count) ==
    IF count % 2 = 0
    THEN RDiv(RAdd(deviations[count \div 2], deviations[count \div 2 + 1]),
              RInt(2))
    ELSE deviations[count \div 2 + 1]

\* stats_mad, lines 336-349: the absolute deviations from the median, sorted
mad_deviations(s, median) ==
    qsort_double([k \in 1..s.count |->
                     RAbs(RSub(RInt(s.data[k].time_ns), median))])

\* stats_mad, from the median on
mad_from_median(s, median) ==
    IF ~is_valid_number(median) THEN NaN
    ELSE mad_of_deviations(mad_deviations(s, median), s.count)

\* stats_mad: the median of the absolute deviations from the median
stats_mad(s) == mad_from_median(s, stats_percentile(s, RInt(50)))

\* the indices (from 0) of the samples k (from 1) with out[k], in loop order
outlier_indices(s, out) ==
    LET idx == SelectSeq([k \in 1..s.count |-> k], LAMBDA k : out[k])
    IN  [k \in 1..Len(idx) |-> idx[k] - 1]

\* stats_outliers_mad_impl, from the statistics on
mad_scan(s, threshold, median, mad) ==
    IF ~is_valid_number(median) \/ ~is_valid_number(mad)
       \/ at_most_STATS_EPSILON(mad)
    THEN [err |-> "OUTLIER_ERR_INVALID_STATISTICS", indices |-> <<>>]
    ELSE [err |-> "OUTLIER_SUCCESS",
          indices |->
              outlier_indices(s,
                  [k \in 1..s.count |->
                      RLess(threshold,
                            RDiv(RAbs(RSub(RInt(s.data[k].time_ns), median)),
                                 mad))])]

stats_outliers_mad_impl(s, threshold) ==
    IF s.count < MIN_SAMPLES_MAD_OUTLIER
    THEN [err |-> "OUTLIER_ERR_INSUFFICIENT_SAMPLES", indices |-> <<>>]
    ELSE mad_scan(s,
                  IF RLess(RInt(0), threshold) THEN threshold
                  ELSE OUTLIER_MAD_DEFAULT,
                  stats_percentile(s, RInt(50)), stats_mad(s))

\* a scan whose fences are inclusive: a value on a fence counts as an outlier
tukey_scan_inclusive(s, lower_bound, upper_bound) ==
    outlier_indices(s, [k \in 1..s.count |->
                           \/ ~RLess(lower_bound, RInt(s.data[k].time_ns))
                           \/ ~RLess(RInt(s.data[k].time_ns), upper_bound)])

\* stats_outliers, the loop of the Tukey branch: the samples outside the
\* fences
tukey_scan(s, lower_bound, upper_bound) ==
    outlier_indices(s, [k \in 1..s.count |->
                           \/ RLess(RInt(s.data[k].time_ns), lower_bound)
                           \/ RLess(upper_bound, RInt(s.data[k].time_ns))])

\* stats_outliers, the fences from the inter-quartile range
tukey_fences(s, q1, q3, iqr) ==
    tukey_scan(s, RSub(q1, RMul(OUTLIER_TUKEY_MULTIPLIER, iqr)),
               RAdd(q3, RMul(OUTLIER_TUKEY_MULTIPLIER, iqr)))

\* stats_outliers, the Tukey branch from the quartiles on
tukey_from_quartiles(s, q1, q3) ==
    IF ~is_valid_number(q1) \/ ~is_valid_number(q3)
    THEN [err |-> "OUTLIER_ERR_INVALID_STATISTICS", indices |-> <<>>]
    ELSE [err |-> "OUTLIER_SUCCESS",
          indices |-> tukey_fences(s, q1, q3, RSub(q3, q1))]

\* stats_outliers; method is "tukey" or "mad" (outliers_lua passes no other)
stats_outliers(s, method) ==
    IF s.count < MIN_SAMPLES_OUTLIER_DETECTION
    THEN [err |-> "OUTLIER_ERR_INSUFFICIENT_SAMPLES", indices |-> <<>>]
    ELSE IF method = "tukey"
    THEN tukey_from_quartiles(s, stats_percentile(s, RInt(25)),
                              stats_percentile(s, RInt(75)))
    ELSE stats_outliers_mad_impl(s, OUTLIER_MAD_DEFAULT)

get_outlier_error_message(err) ==
    CASE err = "OUTLIER_SUCCESS" -> ""
      [] err = "OUTLIER_ERR_INSUFFICIENT_SAMPLES" ->
             "insufficient samples for outlier detection (need at least 4 samples)"
      [] err = "OUTLIER_ERR_INVALID_STATISTICS" ->
             "invalid statistics (unable to compute percentiles or MAD)"
      [] OTHER -> "invalid outlier detection method"

\* outliers_return that hands out the indices as the C loop counts them,
\* from 0
outliers_return_from_zero(r) ==
    IF r.err # "OUTLIER_SUCCESS"
    THEN [ok |-> FALSE, err |-> get_outlier_error_message(r.err),
          indices |-> <<>>]
    ELSE [ok |-> TRUE, err |-> "", indices |-> r.indices]

\* outliers_lua, what it returns for the outcome r of stats_outliers: nil and
\* a message, or the indices counted from 1
outliers_return(r) ==
    IF r.err # "OUTLIER_SUCCESS"
    THEN [ok |-> FALSE, err |-> get_outlier_error_message(r.err),
          indices |-> <<>>]
    ELSE [ok |-> TRUE, err |-> "",
          indices |-> [k \in 1..Len(r.indices) |-> r.indices[k] + 1]]

outliers_lua(s, method) == outliers_return(stats_outliers(s, method))

\* the elapsed times the inspected objects hold
OutlierTimes == {1, 2, 3, 50}

\* the times of the documented example: four close values and one far away
ExampleTimes == <<10, 12, 11, 13, 1000>>

\* an empty object, an object for every sequence of 1..MaxSamples times, and
\* the example
OutlierSets ==
    {new_measure_samples("", 1, -1, DEFAULT_CL, DEFAULT_RCIW)}
    \cup {SamplesOf(ts) : ts \in SeqsUpTo(OutlierTimes, MaxSamples) \ {<<>>}}
    \cup {SamplesOf(ExampleTimes)}

InitOutliers ==
    /\ sets \in {<<s>> : s \in OutlierSets}
    /\ last \in {Result("samples", 1, 0, "", <<method>>) :
                    method \in {"tukey", "mad"}}
    /\ nops = 0

\* what the caller of outliers_lua sees: the method, and nil with a message
\* or the indices
OutliersOutcome(method, r) ==
    Result("outliers", 1, IF r.ok THEN 0 ELSE -1, r.err,
           [method |-> method, ok |-> r.ok, indices |-> r.indices])

\* outliers_lua(sets[1], method); the result keeps the method and the indices
Outliers ==
    /\ last.op = "samples"
    /\ nops' = nops + 1
    /\ UNCHANGED sets
    /\ last' = OutliersOutcome(last.arg[1],
                               outliers_lua(sets[1], last.arg[1]))

NextOutliers == Outliers

SpecOutliers == InitOutliers /\ [][NextOutliers]_vars

\* C19: MAD-based outlier detection accepts every object with at least 3
\* samples and MAD > epsilon and returns an index set for it; it fails with
\* the insufficient-samples error only for fewer than 3 samples.
C19_MadAcceptsThree ==
    (last.op = "outliers" /\ last.arg.method = "mad") =>
        LET s == sets[1]
        IN  /\ (s.count >= 3 /\ ~at_most_STATS_EPSILON(stats_mad(s)))
                   => last.arg.ok
            /\ last.err =
                   get_outlier_error_message("OUTLIER_ERR_INSUFFICIENT_SAMPLES")
                   => s.count < 3

\* C20: Tukey outlier detection on 3 or fewer samples returns the
\* insufficient-samples error and no index set; on a constant-valued object
\* of 4 or more samples it returns the empty index set.
C20_TukeySmallAndConstant ==
    (last.op = "outliers" /\ last.arg.method = "tukey") =>
        LET s == sets[1]
        IN  /\ s.count <= 3 =>
                   /\ ~last.arg.ok
                   /\ last.rc = -1
                   /\ last.err = get_outlier_error_message(
                                     "OUTLIER_ERR_INSUFFICIENT_SAMPLES")
                   /\ last.arg.indices = <<>>
            /\ (/\ s.count >= 4
                /\ \A k \in 1..s.count :
                       s.data[k].time_ns = s.data[1].time_ns)
                   => last.arg.ok /\ last.arg.indices = <<>>

\* Tukey detection ran on MaxSamples equal samples
C20_Witness ==
    /\ last.op = "outliers"
    /\ last.arg.method = "tukey"
    /\ last.arg.ok
    /\ sets[1].count = MaxSamples
    /\ \A k \in 1..sets[1].count : sets[1].data[k].time_ns = 3

(* ----------------------- Tukey fences ----------------------------------- *)
\* the value at rational rank r (from 0) of the ascending values sorted,
\* interpolated linearly between the two neighbouring ranks
InterpolatedAt(sorted, r) ==
    RAdd(RInt(sorted[RFloor(r) + 1]),
         RMul(RSub(r, RInt(RFloor(r))),
              RInt(sorted[RCeil(r) + 1] - sorted[RFloor(r) + 1])))

\* the interpolated p-th percentile of the times of s
InterpolatedPercentile(s, p) ==
    InterpolatedAt(qsort([k \in 1..s.count |-> s.data[k].time_ns]),
                   Rat(p * (s.count - 1), 100))

\* sample k of s lies outside [q1 - 1.5 * (q3 - q1), q3 + 1.5 * (q3 - q1)]
OutsideFences(s, k, q1, q3) ==
    \/ RLess(RInt(s.data[k].time_ns),
             RSub(q1, RMul(Rat(3, 2), RSub(q3, q1))))
    \/ RLess(RAdd(q3, RMul(Rat(3, 2), RSub(q3, q1))),
             RInt(s.data[k].time_ns))

\* indices is strictly ascending within 1..s.count and holds exactly the
\* samples outside the fences of the quartiles q1 and q3
ExactlyTheOutliers(s, indices, q1, q3) ==
    /\ \A j \in 1..Len(indices) : indices[j] \in 1..s.count
    /\ \A j \in 1..(Len(indices) - 1) : indices[j] < indices[j + 1]
    /\ \A k \in 1..s.count :
           (\E j \in 1..Len(indices) : indices[j] = k)
               <=> OutsideFences(s, k, q1, q3)

\* C21: for an object with at least 4 samples Tukey detection succeeds and
\* returns exactly the 1-based indices, ascending and at most count, of the
\* samples below Q1 - 1.5 * IQR or above Q3 + 1.5 * IQR, Q1 and Q3 being the
\* interpolated 25th and 75th percentiles; for the times 10, 12, 11, 13,
\* 1000 that is the last sample alone.
C21_TukeyFences ==
    (last.op = "outliers" /\ last.arg.method = "tukey" /\ sets[1].count >= 4)
        => /\ last.arg.ok
           /\ last.rc = 0
           /\ ExactlyTheOutliers(sets[1], last.arg.indices,
                                 InterpolatedPercentile(sets[1], 25),
                                 InterpolatedPercentile(sets[1], 75))
           /\ sets[1] = SamplesOf(ExampleTimes)
                  => last.arg.indices = <<Len(ExampleTimes)>>

\* Tukey detection ran on the example and flagged its last sample
C21_Witness ==
    /\ last.op = "outliers"
    /\ last.arg.method = "tukey"
    /\ sets[1] = SamplesOf(ExampleTimes)
    /\ last.arg.ok
    /\ last.arg.indices = <<5>>

(* ----------------------- stats: compare --------------------------------- *)
CONFIDENCE_LEVEL_90 == Rat(90, 100)
CONFIDENCE_LEVEL_95 == Rat(95, 100)
CONFIDENCE_LEVEL_99 == Rat(99, 100)

SIGNIFICANCE_LEVEL_01 == Rat(1, 100)
SIGNIFICANCE_LEVEL_05 == Rat(5, 100)
SIGNIFICANCE_LEVEL_10 == Rat(10, 100)
SIGNIFICANCE_LEVEL_20 == Rat(20, 100)
SIGNIFICANCE_LEVEL_50 == Rat(50, 100)

\* t_table: row df holds t_90, t_95 and t_99, in thousandths
t_table ==
    << <<6314, 12706, 63657>>, <<2920, 4303, 9925>>, <<2353, 3182, 5841>>,
       <<2132, 2776, 4604>>, <<2015, 2571, 4032>>, <<1943, 2447, 3707>>,
       <<1895, 2365, 3499>>, <<1860, 2306, 3355>>, <<1833, 2262, 3250>>,
       <<1812, 2228, 3169>>, <<1796, 2201, 3106>>, <<1782, 2179, 3055>>,
       <<1771, 2160, 3012>>, <<1761, 2145, 2977>>, <<1753, 2131, 2947>>,
       <<1746, 2120, 2921>>, <<1740, 2110, 2898>>, <<1734, 2101, 2878>>,
       <<1729, 2093, 2861>>, <<1725, 2086, 2845>>, <<1721, 2080, 2831>>,
       <<1717, 2074, 2819>>, <<1714, 2069, 2807>>, <<1711, 2064, 2797>>,
       <<1708, 2060, 2787>>, <<1706, 2056, 2779>>, <<1703, 2052, 2771>>,
       <<1701, 2048, 2763>>, <<1699, 2045, 2756>>, <<1697, 2042, 2750>> >>

\* get_t_value, the part that reads row df (1..30) of the table
t_table_value(df, confidence_level) ==
    IF ~RLess(confidence_level, CONFIDENCE_LEVEL_99)
    THEN Rat(t_table[df][3], 1000)
    ELSE IF ~RLess(confidence_level, CONFIDENCE_LEVEL_95)
    THEN Rat(t_table[df][2], 1000)
    ELSE IF ~RLess(confidence_level, CONFIDENCE_LEVEL_90)
    THEN Rat(t_table[df][1], 1000)
    ELSE IF RLess(CONFIDENCE_LEVEL_90, confidence_level)
            /\ RLess(confidence_level, CONFIDENCE_LEVEL_95)
    THEN RAdd(Rat(t_table[df][1], 1000),
              RMul(RDiv(RSub(confidence_level, CONFIDENCE_LEVEL_90),
                        RSub(CONFIDENCE_LEVEL_95, CONFIDENCE_LEVEL_90)),
                   Rat(t_table[df][2] - t_table[df][1], 1000)))
    ELSE Rat(t_table[df][1], 1000)

\* get_t_value
get_t_value(df, confidence_level) ==
    IF df >= 30
    THEN IF ~RLess(confidence_level, CONFIDENCE_LEVEL_99) THEN Rat(2576, 1000)
         ELSE IF ~RLess(confidence_level, CONFIDENCE_LEVEL_95)
         THEN Rat(196, 100)
         ELSE IF ~RLess(confidence_level, CONFIDENCE_LEVEL_90)
         THEN Rat(1645, 1000)
         ELSE RInt(1)
    ELSE t_table_value(IF df = 0 THEN 1 ELSE IF df > 30 THEN 30 ELSE df,
                       confidence_level)

\* stats_mean: NaN for an empty object and when the sum leaves the word
RECURSIVE stats_mean_loop(_, _, _)
stats_mean_loop(s, i, sum) ==
    IF i > s.count THEN Rat(sum, s.count)
    ELSE IF sum > UINT64_MAX - s.data[i].time_ns THEN NaN
    ELSE stats_mean_loop(s, i + 1, sum + s.data[i].time_ns)

stats_mean(s) == IF s.count = 0 THEN NaN ELSE stats_mean_loop(s, 1, 0)

\* stats_variance, the loop: the sum of the squared deviations from mean
\* (the Kahan compensation is exact arithmetic's zero)
RECURSIVE sum_sq_diff(_, _, _)
sum_sq_diff(s, mean, i) ==
    IF i = 0 THEN RInt(0)
    ELSE RAdd(sum_sq_diff(s, mean, i - 1),
              RMul(RSub(RInt(s.data[i].time_ns), mean),
                   RSub(RInt(s.data[i].time_ns), mean)))

\* stats_variance, from the mean on
variance_from_mean(s, mean) ==
    IF ~is_valid_number(mean) THEN NaN
    ELSE RDiv(sum_sq_diff(s, mean, s.count), RInt(s.count - 1))

stats_variance(s) ==
    IF s.count = 1 THEN RInt(0)
    ELSE IF s.count < 2 THEN NaN
    ELSE variance_from_mean(s, stats_mean(s))

\* t_stat >= c for the t-statistic whose square is t2 and a constant c >= 0
\* of at most three decimals: t2 >= c * c, with c * c taken apart into its
\* integer part and its millionths so that no product leaves the integers
c2_cross(i, f) == 2000 * i * f + f * f

c2_whole(i, f) == i * i + c2_cross(i, f) \div 1000000

c2_millionths(i, f) == c2_cross(i, f) % 1000000

t2_at_least(whole, rest, den, i, f) ==
    \/ whole > c2_whole(i, f)
    \/ /\ whole = c2_whole(i, f)
       /\ rest * 1000000 >= c2_millionths(i, f) * den

thousandths(c) == (c[1] * 1000) \div c[2]

t_stat_at_least(t2, c) ==
    t2_at_least(t2[1] \div t2[2], t2[1] % t2[2], t2[2],
                thousandths(c) \div 1000, thousandths(c) % 1000)

\* approximate_p_value for |t_stat| whose square is t2, from the critical
\* values of df
p_from_critical(t2, t_01, t_05, t_10) ==
    IF t_stat_at_least(t2, t_01) THEN SIGNIFICANCE_LEVEL_01
    ELSE IF t_stat_at_least(t2, t_05) THEN SIGNIFICANCE_LEVEL_05
    ELSE IF t_stat_at_least(t2, t_10) THEN SIGNIFICANCE_LEVEL_10
    ELSE IF t_stat_at_least(t2, RInt(1)) THEN SIGNIFICANCE_LEVEL_20
    ELSE SIGNIFICANCE_LEVEL_50

approximate_p_value(t2, df) ==
    p_from_critical(t2, get_t_value(df, CONFIDENCE_LEVEL_99),
                    get_t_value(df, CONFIDENCE_LEVEL_95),
                    get_t_value(df, CONFIDENCE_LEVEL_90))

\* the Welch-Satterthwaite degrees of freedom from v1 = var1 / n1 and
\* v2 = var2 / n2.  With n1 = 1 or n2 = 1 a variance of 0 is divided by
\* n - 1 = 0: df_den and df are NaN
welch_satterthwaite(v1, n1, v2, n2) ==
    IF n1 = 1 \/ n2 = 1 THEN NaN
    ELSE RDiv(RMul(RAdd(v1, v2), RAdd(v1, v2)),
              RAdd(RDiv(RMul(v1, v1), RInt(n1 - 1)),
                   RDiv(RMul(v2, v2), RInt(n2 - 1))))

\* (size_t)floor(df), raised to 1; the conversion of NaN is undefined and
\* gives undefined_df
df_int_of(df, undefined_df) ==
    IF df = NaN THEN (IF undefined_df < 1 THEN 1 ELSE undefined_df)
    ELSE IF RFloor(df) < 1 THEN 1 ELSE RFloor(df)

\* stats_compare after both variances are known to be numbers; se2 is the
\* square of the standard error
compare_welch(comp, se2, df, undefined_df) ==
    IF at_most_STATS_EPSILON(se2)
    THEN [comp EXCEPT !.p_value = RInt(1), !.significant = FALSE]
    ELSE [comp EXCEPT
             !.p_value =
                 approximate_p_value(
                     RDiv(RMul(comp.difference, comp.difference), se2),
                     df_int_of(df, undefined_df)),
             !.significant =
                 ~RLess(SIGNIFICANCE_LEVEL_05,
                        approximate_p_value(
                            RDiv(RMul(comp.difference, comp.difference), se2),
                            df_int_of(df, undefined_df)))]

\* stats_compare after both means are known to be numbers
compare_variances(comp, var1, n1, var2, n2, undefined_df) ==
    IF ~is_valid_number(var1) \/ ~is_valid_number(var2) THEN comp
    ELSE compare_welch(comp,
                       RAdd(RDiv(var1, RInt(n1)), RDiv(var2, RInt(n2))),
                       welch_satterthwaite(RDiv(var1, RInt(n1)), n1,
                                           RDiv(var2, RInt(n2)), n2),
                       undefined_df)

\* stats_compare from the means on
compare_means(samples1, samples2, mean1, mean2, undefined_df) ==
    IF ~is_valid_number(mean1) \/ ~is_valid_number(mean2)
    THEN [speedup |-> NaN, difference |-> NaN, p_value |-> RInt(1),
          significant |-> FALSE]
    ELSE compare_variances(
             [speedup |-> IF RLess(RInt(0), mean2) THEN RDiv(mean1, mean2)
                          ELSE NaN,
              difference |-> RSub(mean1, mean2),
              p_value |-> RInt(1), significant |-> FALSE],
             stats_variance(samples1), samples1.count,
             stats_variance(samples2), samples2.count, undefined_df)

stats_compare(samples1, samples2, undefined_df) ==
    compare_means(samples1, samples2, stats_mean(samples1),
                  stats_mean(samples2), undefined_df)

\* compare_lua: validate_samples cannot fail (time_ns is unsigned and data is
\* never NULL); the table holds the four fields of comparison_t
compare_lua(samples1, samples2, undefined_df) ==
    stats_compare(samples1, samples2, undefined_df)

\* what the conversion of a NaN to size_t may give: 0, or the top bit alone
UndefinedSizes == {0, INT64_MAX + 1}

\* sixteen times of variance 14/5 and seventeen times of variance 17/4;
\* two objects of sixteen have df = 30, two of seventeen df = 32
SixteenTimes == <<0, 0, 1, 1, 1, 1, 1, 3, 4, 4, 4, 4, 4, 4, 4, 4>>

SeventeenTimes == <<0, 0, 6, 6, 1, 1, 1, 1, 5, 5, 5, 5, 3, 3, 3, 3, 3>>

\* the long objects: those times, and the same times one later
LongTimes ==
    {SixteenTimes, [k \in 1..16 |-> SixteenTimes[k] + 1],
     SeventeenTimes, [k \in 1..17 |-> SeventeenTimes[k] + 1]}

ShortTimes == {1, 3, 4}

\* the objects compared: an empty one, one for every sequence of
\* 1..MaxShort short times, and the long ones
CompareSets ==
    {new_measure_samples("", 1, -1, DEFAULT_CL, DEFAULT_RCIW)}
    \cup {SamplesOf(ts) : ts \in SeqsUpTo(ShortTimes, MaxShort) \ {<<>>}}
    \cup {SamplesOf(ts) : ts \in LongTimes}

InitCompare ==
    /\ sets \in {<<s1, s2>> : s1 \in CompareSets, s2 \in CompareSets}
    /\ last = Result("samples", 0, 0, "", <<>>)
    /\ nops = 0

\* compare_lua(sets[1], sets[2])
Compare ==
    /\ last.op = "samples"
    /\ nops' = nops + 1
    /\ UNCHANGED sets
    /\ \E undefined_df \in UndefinedSizes :
           last' = Result("compare", 0, 0, "",
                          compare_lua(sets[1], sets[2], undefined_df))

NextCompare == Compare

SpecCompare == InitCompare /\ [][NextCompare]_vars

\* the critical values for 99%, 95% and 90% as documented: row df of the
\* table for df in 1..30, the normal constants above
DocumentedCritical(df) ==
    IF df <= 30
    THEN <<Rat(t_table[df][3], 1000), Rat(t_table[df][2], 1000),
           Rat(t_table[df][1], 1000)>>
    ELSE <<Rat(2576, 1000), Rat(196, 100), Rat(1645, 1000)>>

DocumentedPValue(t2, crit) == p_from_critical(t2, crit[1], crit[2], crit[3])

\* the square of the t-statistic and the degrees of freedom of two objects
\* of two or more samples
TStat2(s1, s2) ==
    RDiv(RMul(RSub(stats_mean(s1), stats_mean(s2)),
              RSub(stats_mean(s1), stats_mean(s2))),
         RAdd(RDiv(stats_variance(s1), RInt(s1.count)),
              RDiv(stats_variance(s2), RInt(s2.count))))

WelchDf(s1, s2) ==
    df_int_of(welch_satterthwaite(RDiv(stats_variance(s1), RInt(s1.count)),
                                  s1.count,
                                  RDiv(stats_variance(s2), RInt(s2.count)),
                                  s2.count), 0)

Testable(s1, s2) ==
    /\ s1.count >= 2
    /\ s2.count >= 2
    /\ ~at_most_STATS_EPSILON(RAdd(RDiv(stats_variance(s1), RInt(s1.count)),
                                   RDiv(stats_variance(s2), RInt(s2.count))))

stddev_lua(s) ==
    IF s.count < 2 THEN NaN ELSE RDiv(s.M2, RInt(s.count - 1))

\* cv_lua: calc_stddev / mean; with mean = 0 every sample is 0, the
\* deviation is 0 too and 0 / 0 is NaN
cv_lua(s) ==
    IF s.count < 2 THEN NaN
    ELSE IF s.mean = RInt(0) THEN NaN
    ELSE RDiv(RDiv(s.M2, RInt(s.count - 1)), RMul(s.mean, s.mean))

\* stderr_lua: calc_stddev / sqrt(count)
stderr_lua(s) ==
    IF s.count < 2 THEN NaN
    ELSE RDiv(RDiv(s.M2, RInt(s.count - 1)), RInt(s.count))

mean_lua(s) == IF s.count = 0 THEN NaN ELSE s.mean

\* throughput_lua: 1 / mean_s with mean_s = mean / 1e9, NaN when mean_s is
\* at most STATS_EPSILON; the value is given in operations per nanosecond
\* (1 / mean), the factor 1e9 of the conversion to seconds left out
throughput_lua(s) ==
    IF s.count = 0 THEN NaN
    ELSE IF at_most_STATS_EPSILON(s.mean) THEN NaN
    ELSE RDiv(RInt(1), s.mean)

\* the times of the objects queried
QueryTimes == {0, 1, 3}

\* a new object, and an object for every sequence of 1..MaxSamples times
QuerySets ==
    {new_measure_samples("", 1, -1, DEFAULT_CL, DEFAULT_RCIW)}
    \cup {SamplesOf(ts) : ts \in SeqsUpTo(QueryTimes, MaxSamples) \ {<<>>}}

InitQuery ==
    /\ sets \in {<<s>> : s \in QuerySets}
    /\ last = Result("samples", 1, 0, "", <<>>)
    /\ nops = 0

\* a method of samples.c that pushes one number computed from sets[1]
Pushed(op, value) ==
    /\ last.op = "samples"
    /\ nops' = nops + 1
    /\ UNCHANGED sets
    /\ last' = Result(op, 1, 0, "", value)

VarianceQuery == Pushed("variance", variance_lua(sets[1]))

StddevQuery == Pushed("stddev", stddev_lua(sets[1]))

CvQuery == Pushed("cv", cv_lua(sets[1]))

StderrQuery == Pushed("stderr", stderr_lua(sets[1]))

MeanQuery == Pushed("mean", mean_lua(sets[1]))

MinQuery == Pushed("min", min_lua(sets[1]))

MaxQuery == Pushed("max", max_lua(sets[1]))

ThroughputQuery == Pushed("throughput", throughput_lua(sets[1]))

NextQuery ==
    \/ VarianceQuery
    \/ StddevQuery
    \/ CvQuery
    \/ StderrQuery
    \/ MeanQuery
    \/ MinQuery
    \/ MaxQuery
    \/ ThroughputQuery

SpecQuery == InitQuery /\ [][NextQuery]_vars

\* C24: variance, stddev, cv and stderr answer NaN, without an error,
\* whenever count < 2; mean, min, max and throughput answer NaN, without
\* an error, whenever count = 0.
C24_UndefinedIsNaN ==
    /\ (last.op \in {"variance", "stddev", "cv", "stderr"}
            /\ sets[1].count < 2)
           => last.rc = 0 /\ last.err = "" /\ last.arg = NaN
    /\ (last.op \in {"mean", "min", "max", "throughput"}
            /\ sets[1].count = 0)
           => last.rc = 0 /\ last.err = "" /\ last.arg = NaN

\* the variance of an object holding one sample was asked for
C24_Witness ==
    /\ last.op = "variance"
    /\ sets[1].count = 1
    /\ last.arg = NaN

(* ------------- posthoc: Scott-Knott ESD on a table with holes ------------ *)
\* the elapsed times of the objects the tables below refer to: two close
\* groups (means 3 and 4, variance 8), a distant one (mean 22), two groups of
\* variance 1 whose means 1 and 3 are exactly 2 standard deviations apart, a
\* constant group and a group of one
TableTimes ==
    <<<<1, 5>>, <<2, 6>>, <<20, 24>>, <<0, 1, 2>>, <<2, 3, 4>>,
      <<2, 2>>, <<5>>>>

GroupObjects == [k \in 1..Len(TableTimes) |-> SamplesOf(TableTimes[k])]

\* lua_rawlen of the table: a border of it (any border when entries are nil;
\* 0 stands for nil)
lua_rawlen(table) ==
    {j \in 0..Len(table) :
        /\ j = 0 \/ table[j] # 0
        /\ j = Len(table) \/ table[j + 1] = 0}

\* the idx fields of samples[]: the entries 1..table_len that are not nil
sample_refs(table, table_len) ==
    SelectSeq([i \in 1..table_len |-> i], LAMBDA i : table[i] # 0)

\* validate_refs without the final test of num_clusters for a single group
validate_refs_one_accepted(objects, table, refs) ==
    IF /\ Len(refs) = 1
       /\ objects[table[refs[1]]].count >= 2
       /\ RLess(RInt(0), RDiv(objects[table[refs[1]]].M2,
                              RInt(objects[table[refs[1]]].count - 1)))
    THEN [err |-> "",
          clusters |->
              <<[id |-> 0,
                 count |-> objects[table[refs[1]]].count,
                 mean |-> objects[table[refs[1]]].mean,
                 variance |-> RDiv(objects[table[refs[1]]].M2,
                                   RInt(objects[table[refs[1]]].count - 1))]>>]
    ELSE IF refs = <<>>
    THEN [err |-> "Scott-Knott ESD requires at least two clusters",
          clusters |-> <<>>]
    ELSE extract_and_validate_samples(
             [k \in 1..Len(refs) |-> objects[table[refs[k]]]])

\* the checks of extract_and_validate_samples on the entries sample_refs names
validate_refs(objects, table, refs) ==
    IF refs = <<>>
    THEN [err |-> "Scott-Knott ESD requires at least two clusters",
          clusters |-> <<>>]
    ELSE extract_and_validate_samples(
             [k \in 1..Len(refs) |-> objects[table[refs[k]]]])

\* extract_and_validate_samples on a table whose entries may be nil
extract_and_validate_table(objects, table, table_len) ==
    IF table_len = 0
    THEN [err |-> "empty table or hash-like tables not supported",
          clusters |-> <<>>]
    ELSE validate_refs(objects, table, sample_refs(table, table_len))

\* the samples field of every cluster of the result with
\* samples[cluster_id].idx in the place of cluster_id + 1
result_by_idx(result, refs) ==
    [c \in 1..Len(result) |->
        [result[c] EXCEPT !.samples =
            [k \in 1..Len(result[c].samples) |-> refs[result[c].samples[k]]]]]

\* the result of steps 3 and 4 with the sample numbers of step 4
with_sample_refs(r, refs) ==
    [r EXCEPT !.result = result_by_idx(r.result, refs)]

\* steps 3 and 4 of scott_knott_esd_lua
cluster_table(sorted, effect_threshold, refs) ==
    with_sample_refs(scott_knott_esd_lua(sorted, effect_threshold), refs)

\* the outcomes of scott_knott_esd_lua(table, threshold); threshold is <<>>
\* when the second argument is absent or nil
skesd_outcomes(objects, table, table_len, threshold, v) ==
    IF threshold # <<>> /\ ~RLess(RInt(0), threshold[1])
    THEN {Result("skesd_table", table_len, -1,
                 "effect size threshold must be positive", <<>>)}
    ELSE IF v.err # ""
    THEN {Result("skesd_table", table_len, -1, v.err, <<>>)}
    ELSE {Result("skesd_table", table_len, 0, "",
                 cluster_table(sorted,
                               IF threshold = <<>> THEN COHEN_D_MEDIUM
                               ELSE threshold[1],
                               sample_refs(table, table_len))) :
             sorted \in qsort_by_mean(v.clusters)}

\* bound: the largest number of entries of a table
MaxEntries == 3

\* the second argument: absent, zero, two
ThresholdArgs == {<<>>, <<RInt(0)>>, <<RInt(2)>>}

InitSkesdTable ==
    /\ sets = GroupObjects
    /\ \E table \in SeqsUpTo(0..Len(GroupObjects), MaxEntries) :
       \E threshold \in ThresholdArgs :
           last = Result("table", 0, 0, "",
                         [table |-> table, threshold |-> threshold])
    /\ nops = 0

\* scott_knott_esd_lua(table, threshold)
ScottKnottEsdTable ==
    /\ last.op = "table"
    /\ nops' = nops + 1
    /\ UNCHANGED sets
    /\ \E table_len \in lua_rawlen(last.arg.table) :
           last' \in skesd_outcomes(
                         sets, last.arg.table, table_len, last.arg.threshold,
                         extract_and_validate_table(sets, last.arg.table,
                                                    table_len))

NextSkesdTable == ScottKnottEsdTable

SpecSkesdTable == InitSkesdTable /\ [][NextSkesdTable]_vars

\* the groups of a table of length table_len: its entries that are not nil
GroupsOf(table, table_len) == {i \in 1..table_len : table[i] # 0}

\* a group the validation does not accept: fewer than 2 samples, or a
\* variance M2 / (count - 1) that is not a positive number
InvalidGroup(s) ==
    \/ s.count < 2
    \/ ~RLess(RInt(0), RDiv(s.M2, RInt(s.count - 1)))

\* C25: Scott-Knott ESD fails, and returns no cluster table, whenever the
\* table holds fewer than 2 groups that are not nil or holds a group with
\* fewer than 2 samples or with a variance that is not positive; the groups
\* of a table are its entries up to the length Lua reports for it.
C25_InvalidGroupsRejected ==
    [][(last.op = "table" /\ last'.op = "skesd_table") =>
          LET table == last.arg.table
              groups == GroupsOf(table, last'.id)
          IN  (\/ Cardinality(groups) < 2
               \/ \E i \in groups : InvalidGroup(sets[table[i]]))
              => /\ last'.rc = -1
                 /\ last'.err # ""
                 /\ last'.arg = <<>>]_vars

\* a table with a hole and two groups, one of them a single sample, was refused
C25_Witness ==
    /\ last.op = "skesd_table"
    /\ last.rc = -1
    /\ last.id = 3
    /\ last.err = "each cluster must contain at least 2 samples"

(* ---------------------------- Welch's ANOVA ------------------------------ *)
\* compute_regularized_incomplete_beta.  Inside 0 < x < 1 with a, b > 0 the
\* value comes from lgamma, exp and a continued fraction, which rational
\* arithmetic cannot follow: there it is value, whatever the evaluation gave
compute_regularized_incomplete_beta(a, b, x, value) ==
    IF ~RLess(RInt(0), x) THEN RInt(0)
    ELSE IF ~RLess(x, RInt(1)) THEN RInt(1)
    ELSE IF ~RLess(RInt(0), a) \/ ~RLess(RInt(0), b) THEN RInt(0)
    ELSE value

x_transform_of(f_statistic, degrees_freedom_1, degrees_freedom_2) ==
    RDiv(RMul(degrees_freedom_1, f_statistic),
         RAdd(RMul(degrees_freedom_1, f_statistic), degrees_freedom_2))

compute_f_distribution_cdf(f_statistic, degrees_freedom_1, degrees_freedom_2, value) ==
    IF ~RLess(RInt(0), f_statistic) THEN RInt(0)
    ELSE IF \/ ~RLess(RInt(0), degrees_freedom_1)
            \/ ~RLess(RInt(0), degrees_freedom_2)
    THEN RInt(0)
    ELSE compute_regularized_incomplete_beta(
             RMul(degrees_freedom_1, Rat(1, 2)),
             RMul(degrees_freedom_2, Rat(1, 2)),
             x_transform_of(f_statistic, degrees_freedom_1,
                            degrees_freedom_2),
             value)

\* the error extract_group_statistics raises for one value of the table
group_error(sample_data) ==
    IF sample_data.count < 2
    THEN "each group must contain at least 2 samples for Welch's ANOVA"
    ELSE IF ~RLess(RInt(0),
                   RDiv(sample_data.M2, RInt(sample_data.count - 1)))
    THEN "invalid sample statistics (variance must be > 0)"
    ELSE ""

\* the welch_group_stats_t stored for one value of the table
group_stats(sample_data) ==
    [sample_size |-> sample_data.count,
     group_mean |-> sample_data.mean,
     group_variance |-> RDiv(sample_data.M2, RInt(sample_data.count - 1)),
     weight |-> RDiv(RInt(sample_data.count),
                     RDiv(sample_data.M2, RInt(sample_data.count - 1)))]

\* extract_group_statistics on the values list of the table.  lua_next may
\* visit them in any order, so any value the checks refuse may be the first
\* one met; the sums over the groups do not depend on the order
extract_group_statistics(list) ==
    IF \E k \in 1..Len(list) : group_error(list[k]) # ""
    THEN {[err |-> group_error(list[k]), groups |-> <<>>] :
             k \in {j \in 1..Len(list) : group_error(list[j]) # ""}}
    ELSE IF Len(list) < 2
    THEN {[err |-> "Welch's ANOVA requires at least two groups",
           groups |-> <<>>]}
    ELSE {[err |-> "",
           groups |-> [k \in 1..Len(list) |-> group_stats(list[k])]]}

\* step 1 of compute_welch_anova_statistics over groups[0..n-1]
RECURSIVE total_weight(_, _)
total_weight(groups, n) ==
    IF n = 0 THEN RInt(0)
    ELSE RAdd(total_weight(groups, n - 1), groups[n].weight)

RECURSIVE weighted_sum_of_means(_, _)
weighted_sum_of_means(groups, n) ==
    IF n = 0 THEN RInt(0)
    ELSE RAdd(weighted_sum_of_means(groups, n - 1),
              RMul(groups[n].weight, groups[n].group_mean))

\* step 2: the sum of w_i * (mean_i - weighted_grand_mean)^2
RECURSIVE between_groups_variation(_, _, _)
between_groups_variation(groups, n, weighted_grand_mean) ==
    IF n = 0 THEN RInt(0)
    ELSE RAdd(between_groups_variation(groups, n - 1, weighted_grand_mean),
              RMul(groups[n].weight,
                   RMul(RSub(groups[n].group_mean, weighted_grand_mean),
                        RSub(groups[n].group_mean, weighted_grand_mean))))

\* step 3: A, the sum of (1 - w_i / W)^2 / (n_i - 1)
RECURSIVE correction_factor_A(_, _, _)
correction_factor_A(groups, n, W) ==
    IF n = 0 THEN RInt(0)
    ELSE RAdd(correction_factor_A(groups, n - 1, W),
              RDiv(RMul(RSub(RInt(1), RDiv(groups[n].weight, W)),
                        RSub(RInt(1), RDiv(groups[n].weight, W))),
                   RInt(groups[n].sample_size - 1)))

\* steps 4 and 5
f_statistic_of(k, variation, A) ==
    RDiv(RDiv(variation, RInt(k - 1)),
         RAdd(RInt(1), RMul(Rat(2 * (k - 2), k * k - 1), A)))

\* step 6: df2 = (k^2 - 1) / (3 A), not below 1
degrees_freedom_2_of(k, A) ==
    IF RLess(RDiv(RInt(k * k - 1), RMul(RInt(3), A)), RInt(1)) THEN RInt(1)
    ELSE RDiv(RInt(k * k - 1), RMul(RInt(3), A))

\* the p-value as computed, without the bounds
clamp_p_value_none(p_value) == p_value

\* step 7, the bounds of the p-value
clamp_p_value(p_value) ==
    IF RLess(p_value, RInt(0)) THEN RInt(0)
    ELSE IF RLess(RInt(1), p_value) THEN RInt(1)
    ELSE p_value

welch_anova_results(f_statistic, degrees_freedom_1, degrees_freedom_2, value) ==
    [f_statistic |-> f_statistic,
     degrees_freedom_1 |-> degrees_freedom_1,
     degrees_freedom_2 |-> degrees_freedom_2,
     p_value |-> clamp_p_value(
                     RSub(RInt(1),
                          compute_f_distribution_cdf(
                              f_statistic, degrees_freedom_1,
                              degrees_freedom_2, value)))]

anova_from_sums(groups, k, W, A, value) ==
    welch_anova_results(
        f_statistic_of(
            k,
            between_groups_variation(
                groups, k, RDiv(weighted_sum_of_means(groups, k), W)),
            A),
        RInt(k - 1), degrees_freedom_2_of(k, A), value)

anova_from_weight(groups, k, W, value) ==
    anova_from_sums(groups, k, W, correction_factor_A(groups, k, W), value)

compute_welch_anova_statistics(groups, num_groups, value) ==
    anova_from_weight(groups, num_groups, total_weight(groups, num_groups),
                      value)

\* welch_anova_lua: the error raised or the fields of the result object
welch_anova_lua(extracted, value) ==
    IF extracted.err # ""
    THEN Result("anova", 0, -1, extracted.err, <<>>)
    ELSE Result("anova", 0, 0, "",
                compute_welch_anova_statistics(
                    extracted.groups, Len(extracted.groups), value))

\* values the evaluation of the incomplete beta function may give; rounding
\* can leave it slightly outside [0, 1]
CdfValues == {Rat(-1, 10), RInt(0), Rat(1, 2), RInt(1), Rat(11, 10)}

\* the elapsed times of the groups: sizes 2, 2, 3 and 4 with variances 2, 2,
\* 3 and 4 and means 2, 4, 2 and 3 (so every weight n / variance is 1), a
\* constant group and a group of one
AnovaTimes ==
    <<<<1, 3>>, <<3, 5>>, <<0, 3, 3>>, <<0, 4, 4, 4>>, <<2, 2>>, <<5>>>>

\* every table of up to MaxEntries of these groups
AnovaLists ==
    {[k \in 1..Len(q) |-> SamplesOf(AnovaTimes[q[k]])] :
        q \in SeqsUpTo(1..Len(AnovaTimes), MaxEntries)}

InitAnova ==
    /\ sets \in AnovaLists
    /\ last \in {Result("groups", 0, 0, "", <<value>>) : value \in CdfValues}
    /\ nops = 0

\* welch_anova_lua(sets)
WelchAnova ==
    /\ last.op = "groups"
    /\ nops' = nops + 1
    /\ UNCHANGED sets
    /\ \E extracted \in extract_group_statistics(sets) :
           last' = welch_anova_lua(extracted, last.arg[1])

NextAnova == WelchAnova

SpecAnova == InitAnova /\ [][NextAnova]_vars

\* C26: Welch's ANOVA raises an error, and returns no result, when the table
\* holds fewer than 2 groups or a group with fewer than 2 samples or with a
\* variance that is not a positive number; every result it does return has
\* df1 = k - 1 for the k groups, df2 >= 1 and 0 <= p_value <= 1.
C26_AnovaValidatesAndBounds ==
    (last.op = "anova") =>
        /\ (\/ Len(sets) < 2
            \/ \E k \in 1..Len(sets) : InvalidGroup(sets[k]))
           => (last.rc = -1 /\ last.err # "" /\ last.arg = <<>>)
        /\ (last.rc = 0) =>
               /\ last.arg.degrees_freedom_1 = RInt(Len(sets) - 1)
               /\ ~RLess(last.arg.degrees_freedom_2, RInt(1))
               /\ ~RLess(last.arg.p_value, RInt(0))
               /\ ~RLess(RInt(1), last.arg.p_value)

\* three groups with different means were accepted and the incomplete beta
\* function gave a value above 1
C26_Witness ==
    /\ last.op = "anova"
    /\ last.rc = 0
    /\ Len(sets) = 3
    /\ RLess(RInt(0), last.arg.f_statistic)
    /\ last.arg.p_value = RInt(0)

\* the elapsed times of the groups of the range [from, to) of sorted, taken
\* from the objects of the table (indices from 0; refs[id + 1] is the entry
\* of the table that group id came from)
RECURSIVE PooledTimes(_, _, _, _, _, _)
PooledTimes(objects, table, refs, sorted, from, to) ==
    IF from >= to THEN <<>>
    ELSE LET s == objects[table[refs[sorted[from + 1].id + 1]]]
         IN  [k \in 1..s.count |-> s.data[k].time_ns]
             \o PooledTimes(objects, table, refs, sorted, from + 1, to)

\* the mean of the elapsed times xs
MeanOfTimes(xs) ==
    RDiv(RSum([k \in 1..Len(xs) |-> RInt(xs[k])], Len(xs)), RInt(Len(xs)))

\* the square of Cohen's d between the samples xs and ys: the squared
\* difference of their means over their pooled variance
CohenD2(xs, ys) ==
    LET diff == RSub(MeanOfTimes(xs), MeanOfTimes(ys))
        pooled == RDiv(RAdd(RMul(RInt(Len(xs) - 1), TwoPassVariance(xs)),
                            RMul(RInt(Len(ys) - 1), TwoPassVariance(ys))),
                       RInt(Len(xs) + Len(ys) - 2))
    IN  RDiv(RMul(diff, diff), pooled)

\* the cluster numbers the groups of the range [from, to) get when numbering
\* starts at next: a sequence over the positions from + 1 .. to of sorted
RECURSIVE ClustersOfRange(_, _, _, _, _, _, _, _)
ClustersOfRange(objects, table, refs, sorted, from, to, threshold, next) ==
    IF to - from <= 1 THEN [k \in 1..(to - from) |-> next]
    ELSE LET split == find_optimal_partition(sorted, from, to)
             d2 == CohenD2(PooledTimes(objects, table, refs, sorted,
                                       from, split),
                           PooledTimes(objects, table, refs, sorted,
                                       split, to))
         IN  IF RLess(d2, RMul(threshold, threshold))
             THEN [k \in 1..(to - from) |-> next]
             ELSE LET left == ClustersOfRange(objects, table, refs, sorted,
                                              from, split, threshold, next)
                  IN  left \o ClustersOfRange(objects, table, refs, sorted,
                                              split, to, threshold,
                                              left[Len(left)] + 1)

\* the threshold in force for the second argument given
ThresholdInForce(threshold) ==
    IF threshold = <<>> THEN Rat(1, 2) ELSE threshold[1]

\* C27: with the groups in ascending order of mean, a range of two or more
\* groups is kept as one cluster exactly when Cohen's d between the pooled
\* samples left and right of its optimal split is below the threshold (0.5
\* when none is given); otherwise it is split there and each side is
\* clustered on its own.  The cluster of every group is the one this rule
\* gives, and two groups with d below the threshold end in one cluster.
C27_MergeBelowThreshold ==
    [][(last.op = "table" /\ last'.op = "skesd_table" /\ last'.rc = 0) =>
          LET refs == sample_refs(last.arg.table, last'.id)
              sorted == last'.arg.sorted
              expected == ClustersOfRange(
                              sets, last.arg.table, refs, sorted, 0,
                              Len(sorted),
                              ThresholdInForce(last.arg.threshold), 0)
          IN  /\ \A i \in 1..Len(sorted) :
                     last'.arg.assignments[sorted[i].id + 1] = expected[i]
              /\ last'.arg.num_clusters = expected[Len(sorted)] + 1
              /\ Len(last'.arg.result) = last'.arg.num_clusters]_vars

\* two groups whose d is below the default threshold came back as one
\* cluster; the table held nothing else
C27_Witness ==
    /\ last.op = "skesd_table"
    /\ last.rc = 0
    /\ last.id = 2
    /\ Len(last.arg.sorted) = 2
    /\ last.arg.sorted[1].mean = RInt(3)
    /\ last.arg.sorted[2].mean = RInt(4)
    /\ last.arg.num_clusters = 1
    /\ Len(last.arg.result) = 1

\* the depth of the recursion of scott_knott_esd_recursive on the range
\* [from, to): 0 when the call returns without calling itself
RECURSIVE RecursionDepth(_, _, _, _)
RecursionDepth(sorted, from, to, threshold) ==
    IF to - from <= 1 THEN 0
    ELSE LET split == find_optimal_partition(sorted, from, to)
         IN  IF \/ split <= from
                \/ split >= to
                \/ should_merge_partitions(sorted, from, split, to, threshold)
             THEN 0
             ELSE 1 + Max(RecursionDepth(sorted, from, split, threshold),
                          RecursionDepth(sorted, split, to, threshold))

\* C28: for every range [start, end) of two or more of the sorted groups
\* find_optimal_partition returns a split with start < split < end, so both
\* parts of a range that is split are smaller than the range; the recursion
\* over N groups is at most N - 1 calls deep and ends with every group in one
\* of at most N clusters.
C28_SplitInsideRange ==
    [][(last.op = "table" /\ last'.op = "skesd_table" /\ last'.rc = 0) =>
          LET sorted == last'.arg.sorted
              N == Len(sorted)
          IN  /\ N >= 2
              /\ \A start \in 0..N : \A end \in 0..N :
                     (end - start >= 2) =>
                         /\ start < find_optimal_partition(sorted, start, end)
                         /\ find_optimal_partition(sorted, start, end) < end
              /\ RecursionDepth(sorted, 0, N,
                                ThresholdInForce(last.arg.threshold)) <= N - 1
              /\ last'.arg.num_clusters \in 1..N
              /\ \A i \in 1..N :
                     last'.arg.assignments[i] \in
                         0..(last'.arg.num_clusters - 1)]_vars

\* three groups, two of them with the same mean, were clustered: no split of
\* the pair with equal means has a sum of squares above zero
C28_Witness ==
    /\ last.op = "skesd_table"
    /\ last.rc = 0
    /\ Len(last.arg.sorted) = 3
    /\ last.arg.sorted[1].mean = last.arg.sorted[2].mean
    /\ last.arg.num_clusters = 2

\* the sum of field f (count or capacity) over the objects ids names
RECURSIVE SumOver(_, _, _)
SumOver(objects, ids, f) ==
    IF ids = <<>> THEN 0
    ELSE objects[Head(ids)][f] + SumOver(objects, Tail(ids), f)

\* C29: merge never ends with the capacity error: whatever objects the list
\* names, the same one twice included, each has count <= capacity, and the
\* merged object gets the sum of the capacities and then exactly the sum of
\* the counts, which the sum of the capacities always covers.
C29_MergeGuardUnreachable ==
    [][(last'.op = "merge" /\ nops' = nops + 1) =>
          /\ last'.err # "failed to merge samples"
          /\ \A k \in 1..Len(last'.arg) :
                 sets[last'.arg[k]].count <= sets[last'.arg[k]].capacity
          /\ (last'.rc = 0) =>
                 /\ sets'[last'.id].capacity =
                        SumOver(sets, last'.arg, "capacity")
                 /\ sets'[last'.id].count = SumOver(sets, last'.arg, "count")
                 /\ sets'[last'.id].count <= sets'[last'.id].capacity]_vars

\* a full object was merged with itself: the merged object is full as well
C29_Witness ==
    /\ last.op = "merge"
    /\ last.rc = 0
    /\ Len(last.arg) = 2
    /\ last.arg[1] = last.arg[2]
    /\ sets[last.arg[1]].count = sets[last.arg[1]].capacity
    /\ sets[last.arg[1]].count > 0
    /\ sets[last.id].count = sets[last.id].capacity

(* ------------------------------ sampler.c -------------------------------- *)
\* the collector settings lua_gc reads and writes
GcState(running, pause, stepmul) ==
    [running |-> running, pause |-> pause, stepmul |-> stepmul]

\* the collector part of measure_samples_preprocess: pause and stepmul are
\* read (set to 0 and set back at once), a full collection runs, and the
\* collector is stopped when gc_step is negative
preprocess_gc(s, gc) ==
    [saved_gc_pause |-> gc.pause,
     saved_gc_stepmul |-> gc.stepmul,
     gc |-> IF s.gc_step < 0 THEN [gc EXCEPT !.running = FALSE] ELSE gc]

\* measure_samples_postprocess: LUA_GCRESTART, then the saved pause and
\* stepmul are set
measure_samples_postprocess(saved_gc_pause, saved_gc_stepmul) ==
    GcState(TRUE, saved_gc_pause, saved_gc_stepmul)

\* is_lua_error: the message pushed for the status of lua_pcall, "" for LUA_OK
is_lua_error(rc) ==
    IF rc = "LUA_OK" THEN ""
    ELSE IF rc = "LUA_ERRRUN" THEN "runtime error"
    ELSE IF rc = "LUA_ERRMEM" THEN "memory error"
    ELSE IF rc = "LUA_ERRERR" THEN "error handling error"
    ELSE "unknown error"

\* the statuses lua_pcall returns for the workload
PcallStatus == {"LUA_OK", "LUA_ERRRUN", "LUA_ERRMEM"}

\* the pause values in the collector; the workload may set another one
GcPauses == {100, 200}

\* bound: the largest number of calls the warm-up loop makes
MaxWarmupCalls == 2

\* the state of a run_lua call: its arguments after parsing, the collector,
\* the values preprocess saved, the loop counter and bound of sampling_lua,
\* and whether the steps before and after the loop were executed
RunState(warmup, clear, gc, saved_gc_pause, saved_gc_stepmul, i, capacity, pre, post) ==
    [warmup |-> warmup, clear |-> clear, gc |-> gc,
     saved_gc_pause |-> saved_gc_pause,
     saved_gc_stepmul |-> saved_gc_stepmul,
     i |-> i, capacity |-> capacity, pre |-> pre, post |-> post]

\* the samples objects a run is given: new ones and one that is full
SamplerObjects ==
    {new_measure_samples("", capacity, gc_step, DEFAULT_CL, DEFAULT_RCIW) :
        capacity \in 1..MaxNewCapacity, gc_step \in {-1, 0, 1}}
    \cup {SamplesOf(<<1, 2>>)}

\* run_lua entered with its arguments parsed
InitSampler ==
    /\ \E s \in SamplerObjects : sets = <<s>>
    /\ \E warmup \in {0, 1}, clear \in BOOLEAN, pause \in GcPauses :
           last = Result("run_lua", 1, 0, "",
                         RunState(warmup, clear, GcState(TRUE, pause, 100),
                                  0, 0, 0, 0, FALSE, FALSE))
    /\ nops = 0

\* the state run_lua returns in
Returned(rv, err, run) == Result("returned", 1, rv, err, run)

\* one pass of the loop of warmup_lua: the workload is called with
\* is_warmup = true and may set the pause; an error ends run_lua, otherwise
\* the loop goes on until the warm-up time has elapsed
WarmupCall(rc, pause, elapsed) ==
    /\ last.op = "run_lua"
    /\ last.arg.warmup > 0
    /\ nops < MaxWarmupCalls
    /\ elapsed \/ nops + 1 < MaxWarmupCalls
    /\ nops' = nops + 1
    /\ UNCHANGED sets
    /\ LET run == [last.arg EXCEPT !.gc.pause = pause]
       IN  IF is_lua_error(rc) # ""
           THEN last' = Returned(-1, is_lua_error(rc), run)
           ELSE last' = [last EXCEPT
                            !.arg = [run EXCEPT
                                        !.warmup = IF elapsed THEN 0 ELSE @]]

\* sampling_lua up to its loop: the samples are cleared if requested and
\* preprocessed
SamplingStart(gc_count_kb) ==
    /\ last.op = "run_lua"
    /\ last.arg.warmup = 0
    /\ nops' = nops + 1
    /\ LET cleared == IF last.arg.clear THEN measure_samples_clear(sets[1])
                      ELSE sets[1]
           p == preprocess_gc(cleared, last.arg.gc)
       IN  /\ sets' = <<measure_samples_preprocess(cleared, gc_count_kb)>>
           /\ last' = Result("sampling", 1, 0, "",
                             RunState(0, last.arg.clear, p.gc,
                                      p.saved_gc_pause, p.saved_gc_stepmul,
                                      cleared.count, sets[1].capacity,
                                      TRUE, FALSE))

\* the outcome of one pass of the loop of sampling_lua on the object s
sampling_pass(s, run, rc, r1, r2) ==
    IF r1.rc < 0
    THEN [s |-> s, last |-> Returned(-1, "failed to initialize sample", run)]
    ELSE IF r2.rc < 0
    THEN [s |-> r1.s, last |-> Returned(-1, "failed to add sample", run)]
    ELSE IF is_lua_error(rc) # ""
    THEN [s |-> r2.s, last |-> Returned(-1, is_lua_error(rc), run)]
    ELSE [s |-> r2.s,
          last |-> Result("sampling", 1, 0, "", [run EXCEPT !.i = @ + 1])]

sampling_update(s, run, rc, r1, stop, after_kb) ==
    sampling_pass(s, run, rc, r1,
                  measure_samples_update_sample(r1.s, stop, after_kb))

\* one pass of the loop: init_sample, the workload under lua_pcall (it may
\* set the pause), update_sample, then the test of the status
SamplingCall(rc, pause, start, stop, before_kb, after_kb) ==
    /\ last.op = "sampling"
    /\ last.arg.i < last.arg.capacity
    /\ nops' = nops + 1
    /\ LET r == sampling_update(
                    sets[1], [last.arg EXCEPT !.gc.pause = pause], rc,
                    measure_samples_init_sample(sets[1], start, before_kb),
                    stop, after_kb)
       IN  /\ sets' = <<r.s>>
           /\ last' = r.last

\* the end of sampling_lua after the loop: postprocess, and run_lua returns
\* true
SamplingEnd ==
    /\ last.op = "sampling"
    /\ last.arg.i >= last.arg.capacity
    /\ nops' = nops + 1
    /\ UNCHANGED sets
    /\ last' = Returned(0, "",
                        [last.arg EXCEPT
                            !.gc = measure_samples_postprocess(
                                       last.arg.saved_gc_pause,
                                       last.arg.saved_gc_stepmul),
                            !.post = TRUE])

NextSampler ==
    \/ \E rc \in PcallStatus, pause \in GcPauses, elapsed \in BOOLEAN :
           WarmupCall(rc, pause, elapsed)
    \/ \E gc_count_kb \in 1..MaxKb : SamplingStart(gc_count_kb)
    \/ \E rc \in PcallStatus, pause \in GcPauses, elapsed \in 1..MaxTime,
          before_kb \in KbVals :
           SamplingCall(rc, pause, MaxTime, MaxTime + elapsed, before_kb,
                        before_kb)
    \/ SamplingEnd

SpecSampler == InitSampler /\ [][NextSampler]_vars

\* C30: a run that executed the pre-run step has, whenever it returns to its
\* caller (true, or false with an error message), executed the post-run
\* step: the collector is running and has the pause and step multiplier the
\* pre-run step saved.
C30_PostRunOnReturn ==
    (last.op = "returned" /\ last.arg.pre) =>
        /\ last.arg.post
        /\ last.arg.gc.running
        /\ last.arg.gc.pause = last.arg.saved_gc_pause
        /\ last.arg.gc.stepmul = last.arg.saved_gc_stepmul

(* ---------------- the read operations and the objects they read ---------- *)
\* the object as qsort on its own data array would leave it: the elapsed
\* times of the slots in use in ascending order
samples_sorted_in_place(s) ==
    [s EXCEPT !.data =
        [k \in 1..s.capacity |->
            IF k <= s.count
            THEN [s.data[k] EXCEPT !.time_ns = copy_and_sort_time_data(s)[k]]
            ELSE s.data[k]]]

\* the object after copy_and_sort_time_data: the times are copied into a
\* malloc'ed array and qsort runs on that array, so the object is as before
samples_after_sort(s) == s

\* mad_lua of samples.c
mad_lua(s) == IF s.count < MIN_SAMPLES_MAD_OUTLIER THEN NaN ELSE stats_mad(s)

\* stats_min and stats_max: the scan of the elapsed times, 0 when empty
stats_min(s) ==
    IF s.count = 0 THEN 0
    ELSE CHOOSE v \in {s.data[k].time_ns : k \in 1..s.count} :
             \A k \in 1..s.count : v <= s.data[k].time_ns

stats_max(s) ==
    IF s.count = 0 THEN 0
    ELSE CHOOSE v \in {s.data[k].time_ns : k \in 1..s.count} :
             \A k \in 1..s.count : v >= s.data[k].time_ns

DEFAULT_DISTRIBUTION_BINS == 10

\* bin_edges[i]: value plus epsilons times STATS_EPSILON; with a range of 0
\* the edges are STATS_EPSILON apart
bin_edge(min_val, range, i, bins) ==
    IF range = 0 THEN [value |-> RInt(min_val), epsilons |-> i]
    ELSE [value |-> RAdd(RInt(min_val), Rat(range * i, bins)),
          epsilons |-> 0]

\* the bin of val, the last bin for the maximum
bin_idx_of(val, min_val, range, bins) ==
    IF RFloor(Rat((val - min_val) * bins, range)) >= bins THEN bins - 1
    ELSE RFloor(Rat((val - min_val) * bins, range))

frequencies_of(s, min_val, range, bins) ==
    [b \in 1..bins |->
        IF range = 0 THEN (IF b = 1 THEN s.count ELSE 0)
        ELSE Cardinality({k \in 1..s.count :
                 bin_idx_of(s.data[k].time_ns, min_val, range, bins)
                     = b - 1})]

distribution_from_range(s, min_val, range, bins) ==
    [bin_edges |-> [i \in 1..(bins + 1) |->
                       bin_edge(min_val, range, i - 1, bins)],
     frequencies |-> frequencies_of(s, min_val, range, bins)]

stats_distribution(s, bins) ==
    distribution_from_range(s, stats_min(s), stats_max(s) - stats_min(s),
                            bins)

\* distribution_lua: the error raised or the table returned
distribution_lua(s, bins) ==
    IF ~(bins > 0)
    THEN [err |-> "number of bins must be positive", table |-> <<>>]
    ELSE [err |-> "", table |-> stats_distribution(s, bins)]

\* the largest value of field f over the slots in use, 0 at least
RECURSIVE peak_of(_, _, _)
peak_of(s, f, n) ==
    IF n = 0 THEN 0 ELSE Max(s.data[n][f], peak_of(s, f, n - 1))

\* total_increase: the sum of before_kb[i] - before_kb[i - 1] for i = 1..n-1
RECURSIVE total_increase_of(_, _)
total_increase_of(s, n) ==
    IF n <= 1 THEN 0
    ELSE total_increase_of(s, n - 1)
         + (s.data[n].before_kb - s.data[n - 1].before_kb)

\* memstat_lua of samples.c
memstat_lua(s) ==
    IF s.count = 0
    THEN [alloc_op |-> RInt(0), peak_memory |-> 0, uncollected |-> 0,
          avg_incr |-> RInt(0), max_alloc_op |-> 0]
    ELSE [alloc_op |-> Rat(s.sum_allocated_kb, s.count),
          peak_memory |-> peak_of(s, "after_kb", s.count),
          uncollected |->
              IF s.count > 1
              THEN Max(0, s.data[s.count].before_kb - s.data[1].before_kb)
              ELSE 0,
          avg_incr |->
              IF s.count > 1 /\ total_increase_of(s, s.count) > 0
              THEN Rat(total_increase_of(s, s.count), s.count - 1)
              ELSE RInt(0),
          max_alloc_op |-> peak_of(s, "allocated_kb", s.count)]

\* the sums of the regression of stats_trend over the first n samples, with
\* x = 0 .. n-1 and y the elapsed time
RECURSIVE trend_sums(_, _)
trend_sums(s, n) ==
    IF n = 0 THEN [sum_x |-> 0, sum_y |-> 0, sum_xy |-> 0, sum_x2 |-> 0]
    ELSE LET t == trend_sums(s, n - 1)
         IN  [sum_x |-> t.sum_x + (n - 1),
              sum_y |-> t.sum_y + s.data[n].time_ns,
              sum_xy |-> t.sum_xy + (n - 1) * s.data[n].time_ns,
              sum_x2 |-> t.sum_x2 + (n - 1) * (n - 1)]

\* n * n * the sums num, den_x and den_y of the correlation (the deviations
\* from the means, times n, are integers)
RECURSIVE correlation_sums(_, _, _, _)
correlation_sums(s, n, sum_x, sum_y) ==
    IF n = 0 THEN [num |-> 0, den_x |-> 0, den_y |-> 0]
    ELSE LET t == correlation_sums(s, n - 1, sum_x, sum_y)
             dx == s.count * (n - 1) - sum_x
             dy == s.count * s.data[n].time_ns - sum_y
         IN  [num |-> t.num + dx * dy,
              den_x |-> t.den_x + dx * dx,
              den_y |-> t.den_y + dy * dy]

\* the correlation num / sqrt(den_x * den_y) as its sign and its square
correlation_of(c) ==
    IF c.den_x > 0 /\ c.den_y > 0
    THEN [sign |-> IF c.num < 0 THEN -1 ELSE IF c.num > 0 THEN 1 ELSE 0,
          square |-> Rat(c.num * c.num, c.den_x * c.den_y)]
    ELSE [sign |-> 0, square |-> RInt(0)]

\* stable: |correlation| < CORRELATION_STABILITY_THRESHOLD = 0.1
trend_from_sums(n, t, correlation) ==
    IF n * t.sum_x2 - t.sum_x * t.sum_x = 0
    THEN [slope |-> RInt(0),
          correlation |-> [sign |-> 0, square |-> RInt(0)], stable |-> TRUE]
    ELSE [slope |-> Rat(n * t.sum_xy - t.sum_x * t.sum_y,
                        n * t.sum_x2 - t.sum_x * t.sum_x),
          correlation |-> correlation,
          stable |-> RLess(correlation.square, Rat(1, 100))]

trend_with_sums(s, t) ==
    trend_from_sums(s.count, t,
                    correlation_of(correlation_sums(s, s.count, t.sum_x,
                                                    t.sum_y)))

stats_trend(s) ==
    IF s.count < 3
    THEN [slope |-> RInt(0),
          correlation |-> [sign |-> 0, square |-> RInt(0)], stable |-> TRUE]
    ELSE trend_with_sums(s, trend_sums(s, s.count))

trend_lua(s) == stats_trend(s)

\* an object sampled twice (3 ns, then 1 ns) with memory counts
SampledObject ==
    measure_samples_update_sample_ex(
        measure_samples_update_sample_ex(
            new_measure_samples("", 2, -1, DEFAULT_CL, DEFAULT_RCIW),
            3, 0, 1).s,
        1, 1, 0).s

\* the objects read: none of them holds its times in ascending order
ReadObjects ==
    <<SampledObject, SamplesOf(<<5, 3>>), SamplesOf(<<3, 0, 3>>),
      SamplesOf(<<4, 0, 4, 4>>)>>

\* every pair of them, and the last three together
InitReads ==
    /\ sets \in {<<ReadObjects[a], ReadObjects[b]>> :
                    a \in 1..Len(ReadObjects), b \in 1..Len(ReadObjects)}
             \cup {Tail(ReadObjects)}
    /\ last = Result("samples", 0, 0, "", <<>>)
    /\ nops = 0

\* bound: the number of read operations in a row
MaxReads == 2

\* a read of sets[i] that leaves the object as after and returns value
Read(op, i, after, err, value) ==
    /\ nops < MaxReads
    /\ nops' = nops + 1
    /\ sets' = [sets EXCEPT ![i] = after]
    /\ last' = Result(op, i, IF err = "" THEN 0 ELSE -1, err, value)

\* a read of several objects through their count, mean and M2 only
ReadAll(op, err, value) ==
    /\ nops < MaxReads
    /\ nops' = nops + 1
    /\ UNCHANGED sets
    /\ last' = Result(op, 0, IF err = "" THEN 0 ELSE -1, err, value)

PercentileRead(i, p) ==
    Read("percentile", i, samples_after_sort(sets[i]), "",
         percentile_lua(sets[i], p))

MadRead(i) ==
    Read("mad", i, samples_after_sort(sets[i]), "", mad_lua(sets[i]))

VarianceRead(i) == Read("variance", i, sets[i], "", variance_lua(sets[i]))

StddevRead(i) == Read("stddev", i, sets[i], "", stddev_lua(sets[i]))

CvRead(i) == Read("cv", i, sets[i], "", cv_lua(sets[i]))

StderrRead(i) == Read("stderr", i, sets[i], "", stderr_lua(sets[i]))

ThroughputRead(i) ==
    Read("throughput", i, sets[i], "", throughput_lua(sets[i]))

DistributionRead(i, bins) ==
    Read("distribution", i, sets[i], distribution_lua(sets[i], bins).err,
         distribution_lua(sets[i], bins).table)

MemstatRead(i) == Read("memstat", i, sets[i], "", memstat_lua(sets[i]))

TrendRead(i) == Read("trend", i, sets[i], "", trend_lua(sets[i]))

OutliersRead(i, method) ==
    /\ nops < MaxReads
    /\ nops' = nops + 1
    /\ sets' = [sets EXCEPT ![i] = samples_after_sort(sets[i])]
    /\ last' = [OutliersOutcome(method, outliers_lua(sets[i], method))
                   EXCEPT !.id = i]

DumpRead(i) == Read("dump", i, sets[i], "", dump_lua(sets[i]))

CompareRead(i, j) ==
    /\ nops < MaxReads
    /\ nops' = nops + 1
    /\ UNCHANGED sets
    /\ \E undefined_df \in UndefinedSizes :
           last' = Result("compare", i, 0, "",
                          compare_lua(sets[i], sets[j], undefined_df))

WelchTRead(beta) ==
    IF extract_samples(sets) # ""
    THEN ReadAll("welcht", extract_samples(sets), <<>>)
    ELSE \E p \in qsort_by_pvalue(perform_pairwise_tests(
                      sets, [k \in 1..n_comparisons(Len(sets)) |-> beta])) :
             ReadAll("welcht", "",
                     build_result_table(
                         apply_holm_correction(
                             perform_pairwise_tests(
                                 sets,
                                 [k \in 1..n_comparisons(Len(sets)) |->
                                     beta]),
                             p)))

AnovaRead(value) ==
    \E extracted \in extract_group_statistics(sets) :
        ReadAll("anova", welch_anova_lua(extracted, value).err,
                welch_anova_lua(extracted, value).arg)

SkesdRead(threshold) ==
    \E table_len \in lua_rawlen([k \in 1..Len(sets) |-> k]) :
        \E r \in skesd_outcomes(
                     sets, [k \in 1..Len(sets) |-> k], table_len, threshold,
                     extract_and_validate_table(
                         sets, [k \in 1..Len(sets) |-> k], table_len)) :
            ReadAll("skesd", r.err, r.arg)

NextReads ==
    \/ \E i \in Ids, p \in {0, 50, 100} : PercentileRead(i, p)
    \/ \E i \in Ids : MadRead(i)
    \/ \E i \in Ids : VarianceRead(i)
    \/ \E i \in Ids : StddevRead(i)
    \/ \E i \in Ids : CvRead(i)
    \/ \E i \in Ids : StderrRead(i)
    \/ \E i \in Ids : ThroughputRead(i)
    \/ \E i \in Ids, bins \in {0, 2, DEFAULT_DISTRIBUTION_BINS} :
           DistributionRead(i, bins)
    \/ \E i \in Ids : MemstatRead(i)
    \/ \E i \in Ids : TrendRead(i)
    \/ \E i \in Ids, method \in {"tukey", "mad"} : OutliersRead(i, method)
    \/ \E i \in Ids : DumpRead(i)
    \/ \E i \in Ids, j \in Ids : CompareRead(i, j)
    \/ \E beta \in BetaValues : WelchTRead(beta)
    \/ \E value \in CdfValues : AnovaRead(value)
    \/ \E threshold \in ThresholdArgs : SkesdRead(threshold)

SpecReads == InitReads /\ [][NextReads]_vars

====
